---- MODULE Spec2Model ----
(***************************************************************************)
(* The connection multiplexer of the lila-socket gateway (src/src/main.rs):*)
(* the routing tables of App, the per-socket authentication state machine  *)
(* (UserSocket), the Handler callbacks of Socket, the session lookup       *)
(* worker and the dispatch of backend events (App::received).              *)
(*                                                                         *)
(* Handlers run on the event loop of the WebSocket library, one at a time. *)
(* The session lookup worker holds the write lock of by_id for the whole   *)
(* of set_user, and every publish happens inside the critical section of   *)
(* the map it reports on, so each callback is one action.                  *)
(*                                                                         *)
(* A failed expect() is a panic: the handler stops where it is, what it    *)
(* has written so far stays written, and no callback runs afterwards.      *)
(*                                                                         *)
(* Time is a clock in milliseconds that advances in steps of TickMs; a     *)
(* timer that is due fires before the clock advances again.                *)
(***************************************************************************)
EXTENDS Integers, Sequences, FiniteSets, TLC

\* ---------------------------------------------------------------- bounds
MaxSockets == 2
MaxEgress == 5
MaxWatchMsg == 2
TickMs == 5000
MaxRateTime == 5000
MaxIdleTime == 20000
IdleCredits == 2
MaxEvents == 2
MaxTellUsers == 2

\* ------------------------------------------------------- program constants
WatchedGamesCapacity == 5000
IDLE_TIMEOUT_MS == 15000
RateLimiterCredits == 40
RateLimiterPerMs == 10000
RateLimiterCleanupMs == 60000
MaxMessageLen == 1024

\* ----------------------------------------------------------- input values
Users == {"alice", "bob"}
Games == {"g1", "g2"}
Positions == {<<"fenA", "e2e4">>, <<"fenB", "e7e5">>}
Lags == {-1, 7}
Mlats == {"123"}
PingLen == 16
\* a text above this length is logged at info level and processed
LongMessageLen == 512
\* the lengths of client texts: short, and around the two thresholds
Lengths ==
    {PingLen, LongMessageLen, LongMessageLen + 1, MaxMessageLen, MaxMessageLen + 1,
     2 * MaxMessageLen}
Payloads == {<<"payload", "x">>}
None == "none"
ClientAddrs == {"10.0.0.1", "10.0.0.2"}

VARIABLES
    socket_id,          \* counter of the socket factory
    sockets,            \* the Socket handlers created so far
    by_id,              \* App.by_id
    by_user,            \* App.by_user
    by_game,            \* App.by_game
    flags,              \* App.flags
    watching_mlat,      \* App.watching_mlat
    watched_games,      \* App.watched_games, most recently put first
    mlat,               \* App.mlat
    connection_count,   \* App.connection_count
    redis_sink,         \* every record handed to App.redis_sink, in order
    sid_sink,           \* App.sid_sink, requests not yet taken by the worker
    sent,               \* the Sender::send calls of the last callback
    last,               \* the last callback that ran, and its input
    panicked,           \* an expect() failed
    now,                \* the clock, in milliseconds
    rate_limiter,       \* the KeyedRateLimiter whose clones the sockets share
    inbound,            \* per client address, how many messages were admitted
    idle_timeout,       \* per socket, when its idle timer is due
    site_out,           \* site-out: how many records the backend published, and
                        \* those the ingress loop has not read, with their numbers
    wire,               \* the sends of the ingress loop, by record number
    lock_trace,         \* the lock operations of the last callback
    pc,                 \* where the event loop thread and the ingress thread are
                        \* in a handler that is taken one critical section at a
                        \* time, with the locals of that handler
    threads             \* per thread, the lock operations left in its callback
                        \* and the guards it holds

vars == <<socket_id, sockets, by_id, by_user, by_game, flags, watching_mlat,
          watched_games, mlat, connection_count, redis_sink, sid_sink, sent,
          last, panicked, now, rate_limiter, inbound, idle_timeout, site_out,
          wire, lock_trace, pc, threads>>

\* the broker stream and its history
ingress_vars == <<site_out, wire>>

\* the threads, where callbacks are taken in steps
step_vars == <<pc, threads>>

\* the clock, the rate limiter and the idle timers
time_vars == <<now, rate_limiter, inbound, idle_timeout>>

\* ------------------------------------------------------------------ types
\* enum Flag { Simul = 0, Tournament = 1 }, by its serde names; App.flags is
\* indexed by the variant
Flag == {"simul", "tournament"}

\* enum SocketAuth
Requested == [kind |-> "Requested", uid |-> None]
Anonymous == [kind |-> "Anonymous", uid |-> None]
Authenticated(uid) == [kind |-> "Authenticated", uid |-> uid]

\* u32::max_value(), the initial value of App.mlat; move latencies are
\* written in decimal, as they go on the wire
U32Max == "4294967295"

\* ---------------------------------------------------------------- helpers
RemoveKeyKeeps(m, k) == m

\* HashMap::remove
RemoveKey(m, k) == [x \in DOMAIN m \ {k} |-> m[x]]

\* HashMap::insert
PutKey(m, k, v) == [x \in DOMAIN m \cup {k} |-> IF x = k THEN v ELSE m[x]]

\* iter().position(|s| s.token() == token): 0 stands for None
Position(seq, x) ==
    IF \E i \in 1..Len(seq) : seq[i] = x
    THEN CHOOSE i \in 1..Len(seq) : seq[i] = x /\ \A j \in 1..(i - 1) : seq[j] # x
    ELSE 0

SwapRemoveKeep(seq, idx) == seq

\* Vec::swap_remove: the last element takes the place of the removed one
SwapRemove(seq, idx) ==
    [k \in 1..(Len(seq) - 1) |-> IF k = idx THEN seq[Len(seq)] ELSE seq[k]]

\* the sequences that list every element of S once (an iteration order)
Orders(S) ==
    {o \in [1..Cardinality(S) -> S] : \A i, j \in 1..Cardinality(S) : o[i] = o[j] => i = j}

Count(seq, x) == Cardinality({i \in 1..Len(seq) : seq[i] = x})

PublishInFront(sink, msg) == <<msg>> \o sink

\* App::publish
Publish(sink, msg) == Append(sink, msg)

\* a callback of socket s (0 for a worker thread) and the input it was given
Call(op, s, arg) == [op |-> op, s |-> s, arg |-> arg]

\* a Sender::send or Sender::close call and whether it returned Ok
Send(to, msg, ok) == [to |-> to, msg |-> msg, ok |-> ok]

\* the pong, Message::text("0")
Pong == <<"0">>

\* Sender::close(code): CloseCode::Away is 1001, CloseCode::Protocol 1002 and
\* CloseCode::Size 1009
Close(code) == <<"close", code>>

\* SocketIn::Fen { id, fen, lm }
Fen(game, fen, lm) == <<"fen", game, fen, lm>>

MoveLatencyAtStart(m) == <<"mlat", U32Max>>

\* SocketIn::MoveLatency
MoveLatency(m) == <<"mlat", m>>

ConnectionsUnclamped(count) == count - 1

\* max(0, connection_count) as u32
Connections(count) == IF count > 0 THEN count ELSE 0

\* ------------------------------------------------------------------ locks
\* the locks of App: one per map, and one per flag set
FlagLock(flag) == IF flag = "simul" THEN "flags[0]" ELSE "flags[1]"

\* RwLock::read or RwLock::write returns the guard
Acquire(lock, mode) == [op |-> "acquire", lock |-> lock, mode |-> mode]

\* the guard is dropped
Release(lock) == [op |-> "release", lock |-> lock, mode |-> "none"]

\* a critical section of lock, with the lock operations made inside it
Locked(lock, mode, inner) == <<Acquire(lock, mode)>> \o inner \o <<Release(lock)>>

\* ----------------------------------------------------------------- timers
\* Option<Timeout>::None
NoTimeout == -1

OnNewTimeoutKeepsOld(timers, s, due) ==
    IF timers[s] = NoTimeout THEN [timers EXCEPT ![s] = due] ELSE timers

\* Sender::timeout and the on_new_timeout it leads to: the timeout the socket
\* had is cancelled and the new one, due at `due`, takes its place
OnNewTimeout(timers, s, due) == [timers EXCEPT ![s] = due]

\* ----------------------------------------------------------- rate limiter
\* KeyedRateLimiter::new(capacity, per_time_unit): capacity is the option
\* --rate-limiter-credits
KeyedRateLimiterNew(capacity, per_ms) ==
    [capacity |-> capacity, per_ms |-> per_ms, buckets |-> <<>>]

\* the time one credit stands for: the bucket holds per_time_unit of it
TokenInterval(limiter) == limiter.per_ms \div limiter.capacity

\* the level of the bucket of addr at time t: it drains with the time since
\* the last admitted message; a key not seen before has an empty bucket
Level(limiter, addr, t) ==
    IF addr \in DOMAIN limiter.buckets
    THEN LET drained == limiter.buckets[addr].level - (t - limiter.buckets[addr].drip)
         IN  IF drained > 0 THEN drained ELSE 0
    ELSE 0

ConformsStrict(limiter, level) == level < limiter.per_ms

\* the bucket has room for the credit of one more message
Conforms(limiter, level) == level <= limiter.per_ms

\* KeyedRateLimiter::check(addr) at time t
Check(limiter, addr, t) ==
    LET level == Level(limiter, addr, t) + TokenInterval(limiter)
    IN  IF Conforms(limiter, level)
        THEN [ok |-> TRUE,
              limiter |-> [limiter EXCEPT
                             !.buckets = PutKey(@, addr, [level |-> level, drip |-> t])]]
        ELSE [ok |-> FALSE, limiter |-> limiter]

\* KeyedRateLimiter::cleanup(60 s) at time t
Cleanup(limiter, t) ==
    [limiter EXCEPT
       !.buckets = [a \in {k \in DOMAIN @ : t - @[k].drip < RateLimiterCleanupMs} |-> @[a]]]

\* ---------------------------------------------------------- watched_games
\* whether LruCache::peek finds the game
Cached(cache, game) == \E i \in 1..Len(cache) : cache[i].game = game

PeekFront(cache, game) == cache[1]

\* LruCache::peek: the WatchedGame of a cached game
Peek(cache, game) == cache[CHOOSE i \in 1..Len(cache) : cache[i].game = game]

\* LruCache::put: the entry becomes the most recent one, and the least recent
\* one is evicted when the capacity is exceeded
Put(cache, game, fen, lm) ==
    LET c == <<[game |-> game, fen |-> fen, lm |-> lm]>>
                 \o SelectSeq(cache, LAMBDA e : e.game # game)
    IN  IF Len(c) > WatchedGamesCapacity THEN SubSeq(c, 1, WatchedGamesCapacity) ELSE c

\* ------------------------------------------------------------- UserSocket
OnNotifiedForget(us, sink) ==
    [us |-> [us EXCEPT !.pending_notified = FALSE],
     sink |-> IF us.auth.kind = "Authenticated"
              THEN Publish(sink, <<"notified", us.auth.uid>>) ELSE sink]

\* UserSocket::on_notified
OnNotified(us, sink) ==
    [us |-> [us EXCEPT !.pending_notified = (us.auth.kind = "Requested")],
     sink |-> IF us.auth.kind = "Authenticated"
              THEN Publish(sink, <<"notified", us.auth.uid>>) ELSE sink]

\* UserSocket::on_following_onlines
OnFollowingOnlines(us, sink) ==
    [us |-> [us EXCEPT !.pending_following_onlines = (us.auth.kind = "Requested")],
     sink |-> IF us.auth.kind = "Authenticated"
              THEN Publish(sink, <<"friends", us.auth.uid>>) ELSE sink]

OnPingWhateverAuth(us, lag, sink) == Publish(sink, <<"lag", us.auth.uid, lag>>)

\* UserSocket::on_ping
OnPing(us, lag, sink) ==
    IF us.auth.kind = "Authenticated" THEN Publish(sink, <<"lag", us.auth.uid, lag>>) ELSE sink

FirstOpenAlways(bu, uid) == TRUE

\* set_user: the entry of uid is vacant, so or_insert_with runs
FirstOpen(bu, uid) == uid \notin DOMAIN bu

\* set_user, "Connected": by_user.entry(uid).and_modify(push).or_insert_with(publish; vec![sender])
Connected(us, maybe_uid, bu, sink) ==
    IF maybe_uid = None THEN [bu |-> bu, sink |-> sink]
    ELSE IF FirstOpen(bu, maybe_uid)
         THEN [bu |-> PutKey(bu, maybe_uid, <<us.sender>>),
               sink |-> Publish(sink, <<"connect", maybe_uid>>)]
         ELSE [bu |-> [bu EXCEPT ![maybe_uid] = Append(@, us.sender)], sink |-> sink]

\* set_user, "Disconnected": the arm of the previous Authenticated(uid)
Disconnected(us, uid, bu, sink) ==
    IF uid \notin DOMAIN bu \/ Position(bu[uid], us.sender) = 0
    THEN [bu |-> bu, sink |-> sink, panic |-> TRUE]
    ELSE LET entry == SwapRemove(bu[uid], Position(bu[uid], us.sender))
         IN  IF entry = <<>>
             THEN [bu |-> RemoveKey(bu, uid),
                   sink |-> Publish(sink, <<"disconnect", uid>>), panic |-> FALSE]
             ELSE [bu |-> [bu EXCEPT ![uid] = entry], sink |-> sink, panic |-> FALSE]

\* set_user, "Authentication request finished": replay of the pending intents
Replay(us, sink) ==
    LET n == IF us.pending_notified THEN OnNotified(us, sink) ELSE [us |-> us, sink |-> sink]
    IN  IF n.us.pending_following_onlines THEN OnFollowingOnlines(n.us, n.sink) ELSE n

SetUserIgnoresMiss(us, maybe_uid, bu, sink) ==
    IF maybe_uid = None THEN [us |-> us, bu |-> bu, sink |-> sink, panic |-> FALSE]
    ELSE LET c == Connected(us, maybe_uid, bu, sink)
         IN  [us |-> [us EXCEPT !.auth = Authenticated(maybe_uid)],
              bu |-> c.bu, sink |-> c.sink, panic |-> FALSE]

\* UserSocket::set_user
SetUser(us, maybe_uid, bu, sink) ==
    LET c == Connected(us, maybe_uid, bu, sink)
        auth == IF maybe_uid = None THEN Anonymous ELSE Authenticated(maybe_uid)
        us1 == [us EXCEPT !.auth = auth]
    IN  CASE us.auth.kind = "Authenticated" ->
                LET d == Disconnected(us, us.auth.uid, c.bu, c.sink)
                IN  [us |-> us1, bu |-> d.bu, sink |-> d.sink, panic |-> d.panic]
          [] us.auth.kind = "Requested" ->
                LET r == Replay(us1, c.sink)
                IN  [us |-> r.us, bu |-> c.bu, sink |-> r.sink, panic |-> FALSE]
          [] OTHER -> [us |-> us1, bu |-> c.bu, sink |-> c.sink, panic |-> FALSE]

SetUserLocksReadsById(us, maybe_uid) ==
    Locked("by_user", "write", Locked("by_id", "read", <<>>))

\* the lock operations of set_user: by_user is written to connect a user and to
\* disconnect the previous one, each time in a critical section of its own
SetUserLocks(us, maybe_uid) ==
    (IF maybe_uid = None THEN <<>> ELSE Locked("by_user", "write", <<>>))
        \o (IF us.auth.kind = "Authenticated" THEN Locked("by_user", "write", <<>>) ELSE <<>>)

\* ---------------------------------------------------------------- threads
\* the event loop thread of server.listen, the session lookup thread and the
\* ingress thread
Threads == {"ws", "lookup", "ingress"}

\* the event loop thread is in no handler: at is the position, s the socket,
\* and the other fields are the locals of the last handler taken in steps
WsReturned == [at |-> "returned", s |-> 0, user_socket |-> <<>>, game |-> None, state |-> <<>>]

\* the ingress thread is in recv: state is the last move that it dispatched and
\* to are the sockets it sent it to
IngressReturned == [at |-> "returned", state |-> <<>>, to |-> {}]

\* ------------------------------------------------------------------- Init
\* App::new, and main up to server.listen, with the option
\* --rate-limiter-credits set to credits: disconnect/all is published first
InitOpt(credits) ==
    /\ socket_id = 0
    /\ sockets = <<>>
    /\ by_id = <<>>
    /\ by_user = <<>>
    /\ by_game = <<>>
    /\ flags = [f \in Flag |-> {}]
    /\ watching_mlat = {}
    /\ watched_games = <<>>
    /\ mlat = U32Max
    /\ connection_count = 0
    /\ redis_sink = <<<<"disconnect", "all">>>>
    /\ sid_sink = <<>>
    /\ sent = <<>>
    /\ last = [op |-> "main", s |-> 0, arg |-> None]
    /\ panicked = FALSE
    /\ now = 0
    /\ rate_limiter = KeyedRateLimiterNew(credits, RateLimiterPerMs)
    /\ inbound = [addr \in ClientAddrs |-> 0]
    /\ idle_timeout = [s \in 1..MaxSockets |-> NoTimeout]
    /\ site_out = [published |-> 0, pending |-> <<>>]
    /\ wire = <<>>
    /\ lock_trace = <<>>
    /\ pc = [ws |-> WsReturned, ingress |-> IngressReturned]
    /\ threads = [t \in Threads |-> [ops |-> <<>>, held |-> {}]]

\* the start with the default options
Init == InitOpt(RateLimiterCredits)

\* the sockets on which on_open has run and on_close has not
OpenSockets == {s \in DOMAIN sockets : sockets[s].phase = "open"}

\* ------------------------------------------------------------ the factory
\* the closure given to ws::Builder::build: a connection was accepted
Factory ==
    /\ ~panicked
    /\ UNCHANGED step_vars
    /\ last' = Call("factory", socket_id + 1, None)
    /\ socket_id < MaxSockets
    /\ socket_id' = socket_id + 1
    /\ sockets' = PutKey(sockets, socket_id + 1,
                         [phase |-> "connecting", watching |-> {}, flag |-> None,
                          move_lat |-> <<>>, client_addr |-> None,
                          rate_limited_once |-> FALSE])
    /\ sent' = <<>>
    /\ UNCHANGED <<by_id, by_user, by_game, flags, watching_mlat, watched_games, mlat,
                   connection_count, redis_sink, sid_sink, panicked>>
    /\ lock_trace' = <<>>
    /\ UNCHANGED <<ingress_vars, time_vars>>

\* ---------------------------------------------------------------- on_open
OnOpenClientAddrErrUncounted(s) ==
    /\ ~panicked
    /\ UNCHANGED step_vars
    /\ last' = Call("on_open", s, "client_addr error")
    /\ s \in DOMAIN sockets /\ sockets[s].phase = "connecting"
    /\ sockets' = [sockets EXCEPT ![s].phase = "open"]
    /\ sent' = <<>>
    /\ UNCHANGED <<socket_id, by_id, by_user, by_game, flags, watching_mlat, watched_games,
                   mlat, connection_count, redis_sink, sid_sink, panicked>>
    /\ lock_trace' = <<>>
    /\ UNCHANGED <<ingress_vars, time_vars>>

\* Socket::on_open when handshake.request.client_addr()? is an error (a forwarding
\* header that is not UTF-8): the count is updated, nothing else is registered.
\* The connection is Open for the library, which closes it and calls on_close.
OnOpenClientAddrErr(s) ==
    /\ ~panicked
    /\ UNCHANGED step_vars
    /\ last' = Call("on_open", s, "client_addr error")
    /\ s \in DOMAIN sockets /\ sockets[s].phase = "connecting"
    /\ connection_count' = connection_count + 1
    /\ sockets' = [sockets EXCEPT ![s].phase = "open"]
    /\ sent' = <<>>
    /\ UNCHANGED <<socket_id, by_id, by_user, by_game, flags, watching_mlat, watched_games,
                   mlat, redis_sink, sid_sink, panicked>>
    /\ lock_trace' = <<>>
    /\ UNCHANGED <<ingress_vars, time_vars>>

\* Socket::on_open: addr is the client address of the handshake (None without
\* one that parses), has_cookie says whether a lila2 session cookie was parsed,
\* flag is the flag of the query string (None without a valid one)
OnOpen(s, addr, has_cookie, flag) ==
    /\ ~panicked
    /\ UNCHANGED step_vars
    /\ last' = Call("on_open", s, <<has_cookie, flag>>)
    /\ s \in DOMAIN sockets /\ sockets[s].phase = "connecting"
    /\ connection_count' = connection_count + 1
    /\ by_id' = PutKey(by_id, s,
                       [sender |-> s,
                        auth |-> IF has_cookie THEN Requested ELSE Anonymous,
                        pending_notified |-> FALSE,
                        pending_following_onlines |-> FALSE])
    /\ sid_sink' = IF has_cookie THEN Append(sid_sink, s) ELSE sid_sink
    /\ flags' = IF flag = None THEN flags ELSE [flags EXCEPT ![flag] = @ \cup {s}]
    /\ sockets' = [sockets EXCEPT ![s].phase = "open", ![s].flag = flag,
                                  ![s].client_addr = addr]
    /\ sent' = <<>>
    /\ idle_timeout' = OnNewTimeout(idle_timeout, s, now + IDLE_TIMEOUT_MS)
    /\ lock_trace' = Locked("by_id", "write", <<>>)
                         \o (IF flag = None THEN <<>> ELSE Locked(FlagLock(flag), "write", <<>>))
    /\ UNCHANGED <<socket_id, by_user, by_game, watching_mlat, watched_games, mlat,
                   redis_sink, panicked, ingress_vars, now, rate_limiter, inbound>>

\* --------------------------------------------------- session lookup worker
\* one turn of the loop of the session lookup thread: maybe_uid is what the
\* session store and UserId::new make of the cookie
SessionLookup(maybe_uid) ==
    /\ ~panicked
    /\ UNCHANGED step_vars
    /\ sid_sink # <<>>
    /\ last' = Call("session_lookup", Head(sid_sink), maybe_uid)
    /\ sid_sink' = Tail(sid_sink)
    /\ sent' = <<>>
    /\ LET s == Head(sid_sink)
       IN  IF s \in DOMAIN by_id
           THEN LET r == SetUser(by_id[s], maybe_uid, by_user, redis_sink)
                IN  /\ by_id' = [by_id EXCEPT ![s] = r.us]
                    /\ by_user' = r.bu
                    /\ redis_sink' = r.sink
                    /\ panicked' = r.panic
           ELSE UNCHANGED <<by_id, by_user, redis_sink, panicked>>
    /\ UNCHANGED <<socket_id, sockets, by_game, flags, watching_mlat, watched_games, mlat,
                   connection_count>>
    /\ lock_trace' = LET s == Head(sid_sink)
                      IN  Locked("by_id", "write",
                                 IF s \in DOMAIN by_id
                                 THEN SetUserLocks(by_id[s], maybe_uid) ELSE <<>>)
    /\ UNCHANGED <<ingress_vars, time_vars>>

\* ------------------------------------------------------------- on_message
\* on_message of socket s up to the reset of the idle timer, for a message that
\* is not dropped: a socket without client address is not rate limited, one
\* with a client address needs a credit of its address
Admitted(s) ==
    LET addr == sockets[s].client_addr
        c == Check(rate_limiter, addr, now)
    IN  /\ addr # None => c.ok
        /\ rate_limiter' = IF addr = None THEN rate_limiter ELSE c.limiter
        /\ inbound' = IF addr = None THEN inbound ELSE [inbound EXCEPT ![addr] = @ + 1]
        /\ idle_timeout' = OnNewTimeout(idle_timeout, s, now + IDLE_TIMEOUT_MS)
        /\ UNCHANGED now

\* Socket::on_message when the rate limiter has no credit for the client address:
\* the message is ignored, before the idle timer is touched
OnMessageRateLimited(s) ==
    /\ ~panicked
    /\ UNCHANGED step_vars
    /\ last' = Call("rate limited", s, None)
    /\ s \in OpenSockets
    /\ sockets[s].client_addr # None
    /\ ~Check(rate_limiter, sockets[s].client_addr, now).ok
    /\ sockets' = [sockets EXCEPT ![s].rate_limited_once = TRUE]
    /\ sent' = <<>>
    /\ lock_trace' = <<>>
    /\ UNCHANGED <<socket_id, by_id, by_user, by_game, flags, watching_mlat, watched_games,
                   mlat, connection_count, redis_sink, sid_sink, panicked, time_vars,
                   ingress_vars>>

\* Socket::on_message, the text "null": the fast path for ping
OnMessageNull(s) ==
    /\ ~panicked
    /\ UNCHANGED step_vars
    /\ last' = Call("null", s, None)
    /\ s \in OpenSockets
    /\ Admitted(s)
    /\ sent' = <<Send(s, Pong, TRUE)>>
    /\ lock_trace' = <<>>
    /\ UNCHANGED <<socket_id, sockets, by_id, by_user, by_game, flags, watching_mlat,
                   watched_games, mlat, connection_count, redis_sink, sid_sink, panicked,
                   ingress_vars>>

TooLongFrom1026(len) == len > MaxMessageLen + 1

\* msg.len() > 1024
TooLong(len) == len > MaxMessageLen

\* Socket::on_message, a text of len bytes that is not "null" and is too long:
\* it is not parsed
OnMessageTooLong(s, len) ==
    /\ ~panicked
    /\ UNCHANGED step_vars
    /\ last' = Call("too long", s, len)
    /\ s \in OpenSockets
    /\ TooLong(len)
    /\ Admitted(s)
    /\ sent' = <<Send(s, Close("1009"), TRUE)>>
    /\ lock_trace' = <<>>
    /\ UNCHANGED <<socket_id, sockets, by_id, by_user, by_game, flags, watching_mlat,
                   watched_games, mlat, connection_count, redis_sink, sid_sink, panicked,
                   ingress_vars>>

\* The actions below are on_message for a text that is not "null", is at most
\* 1024 bytes long and was admitted by the rate limiter.

\* Socket::on_message, {"t":"p"} in a text of len bytes: l is the Option<i32> of
\* the message, <<>> for None and <<lag>> for Some(lag)
OnMessagePing(s, len, l) ==
    /\ ~panicked
    /\ UNCHANGED step_vars
    /\ last' = Call("p", s, [len |-> len, l |-> l])
    /\ s \in OpenSockets
    /\ ~TooLong(len)
    /\ Len(redis_sink) < MaxEgress
    /\ IF l # <<>> /\ l[1] >= 0
       THEN IF s \in DOMAIN by_id
            THEN /\ redis_sink' = OnPing(by_id[s], l[1], redis_sink)
                 /\ sent' = <<Send(s, Pong, TRUE)>>
                 /\ UNCHANGED panicked
            ELSE /\ panicked' = TRUE
                 /\ sent' = <<>>
                 /\ UNCHANGED redis_sink
       ELSE /\ sent' = <<Send(s, Pong, TRUE)>>
            /\ UNCHANGED <<redis_sink, panicked>>
    /\ UNCHANGED <<socket_id, sockets, by_id, by_user, by_game, flags, watching_mlat,
                   watched_games, mlat, connection_count, sid_sink>>
    /\ Admitted(s)
    /\ lock_trace' = IF l # <<>> /\ l[1] >= 0 THEN Locked("by_id", "read", <<>>) ELSE <<>>
    /\ UNCHANGED ingress_vars

\* Socket::on_message, {"t":"notified"}
OnMessageNotified(s) ==
    /\ ~panicked
    /\ UNCHANGED step_vars
    /\ last' = Call("notified", s, None)
    /\ s \in OpenSockets
    /\ Len(redis_sink) < MaxEgress
    /\ sent' = <<>>
    /\ IF s \in DOMAIN by_id
       THEN LET r == OnNotified(by_id[s], redis_sink)
            IN  /\ by_id' = [by_id EXCEPT ![s] = r.us]
                /\ redis_sink' = r.sink
                /\ UNCHANGED panicked
       ELSE /\ panicked' = TRUE
            /\ UNCHANGED <<by_id, redis_sink>>
    /\ UNCHANGED <<socket_id, sockets, by_user, by_game, flags, watching_mlat,
                   watched_games, mlat, connection_count, sid_sink>>
    /\ Admitted(s)
    /\ lock_trace' = Locked("by_id", "write", <<>>)
    /\ UNCHANGED ingress_vars

\* Socket::on_message, {"t":"following_onlines"}
OnMessageFollowingOnlines(s) ==
    /\ ~panicked
    /\ UNCHANGED step_vars
    /\ last' = Call("following_onlines", s, None)
    /\ s \in OpenSockets
    /\ Len(redis_sink) < MaxEgress
    /\ sent' = <<>>
    /\ IF s \in DOMAIN by_id
       THEN LET r == OnFollowingOnlines(by_id[s], redis_sink)
            IN  /\ by_id' = [by_id EXCEPT ![s] = r.us]
                /\ redis_sink' = r.sink
                /\ UNCHANGED panicked
       ELSE /\ panicked' = TRUE
            /\ UNCHANGED <<by_id, redis_sink>>
    /\ UNCHANGED <<socket_id, sockets, by_user, by_game, flags, watching_mlat,
                   watched_games, mlat, connection_count, sid_sink>>
    /\ Admitted(s)
    /\ lock_trace' = Locked("by_id", "write", <<>>)
    /\ UNCHANGED ingress_vars

FirstWatcherAlways(bg, game) == TRUE

\* StartWatching: the entry of game in by_game is vacant, so or_insert_with runs
FirstWatcher(bg, game) == game \notin DOMAIN bg

RECURSIVE StartWatching(_, _, _, _, _, _)
\* the loop of StartWatching from the k-th game of d on; the send of the cached
\* state of the fail_at-th game, if it is made, returns an error.
\* st = [watching, bg, sink, sent, locks, err]
StartWatching(k, d, fail_at, token, cache, st) ==
    IF k > Len(d) THEN st
    ELSE IF d[k] \in st.watching THEN StartWatching(k + 1, d, fail_at, token, cache, st)
    ELSE LET game == d[k]
             state == Peek(cache, game)
             st1 == [st EXCEPT
                       !.watching = @ \cup {game},
                       !.locks = @ \o Locked("watched_games", "read", <<>>)
                                   \o (IF Cached(cache, game) /\ k = fail_at THEN <<>>
                                       ELSE Locked("by_game", "write", <<>>)),
                       !.sent = IF Cached(cache, game)
                                THEN Append(@, Send(token, Fen(game, state.fen, state.lm),
                                                    k # fail_at))
                                ELSE @]
         IN  IF Cached(cache, game) /\ k = fail_at
             THEN [st1 EXCEPT !.err = TRUE]
             ELSE StartWatching(k + 1, d, fail_at, token, cache,
                      IF FirstWatcher(st.bg, game)
                      THEN [st1 EXCEPT !.bg = PutKey(@, game, <<token>>),
                                       !.sink = Publish(@, <<"watch", game>>)]
                      ELSE [st1 EXCEPT !.bg[game] = Append(@, token)])

\* Socket::on_message, {"t":"startWatching","d":"..."} with the game ids d
OnMessageStartWatching(s, d, fail_at) ==
    /\ ~panicked
    /\ UNCHANGED step_vars
    /\ last' = Call("startWatching", s, d)
    /\ s \in OpenSockets
    /\ fail_at \in 0..Len(d)
    /\ LET r == StartWatching(1, d, fail_at, s, watched_games,
                              [watching |-> sockets[s].watching, bg |-> by_game,
                               sink |-> redis_sink, sent |-> <<>>, locks |-> <<>>,
                               err |-> FALSE])
       IN  /\ sockets' = [sockets EXCEPT ![s].watching = r.watching]
           /\ by_game' = r.bg
           /\ redis_sink' = r.sink
           /\ sent' = r.sent
           /\ lock_trace' = r.locks
    /\ Admitted(s)
    /\ UNCHANGED <<socket_id, by_id, by_user, flags, watching_mlat, watched_games, mlat,
                   connection_count, sid_sink, panicked, ingress_vars>>

\* Socket::on_message, {"t":"moveLat","d":d}; send_ok is the result of the send
OnMessageMoveLatency(s, d, send_ok) ==
    /\ ~panicked
    /\ UNCHANGED step_vars
    /\ last' = Call("moveLat", s, d)
    /\ s \in OpenSockets
    /\ IF d
       THEN /\ watching_mlat' = watching_mlat \cup {s}
            /\ sent' = IF s \notin watching_mlat
                       THEN <<Send(s, MoveLatency(mlat), send_ok)>> ELSE <<>>
       ELSE /\ watching_mlat' = watching_mlat \ {s}
            /\ sent' = <<>>
    /\ sockets' = [sockets EXCEPT ![s].move_lat = <<d>>]
    /\ UNCHANGED <<socket_id, by_id, by_user, by_game, flags, watched_games, mlat,
                   connection_count, redis_sink, sid_sink, panicked>>
    /\ Admitted(s)
    /\ lock_trace' = Locked("watching_mlat", "write", <<>>)
    /\ UNCHANGED ingress_vars

\* --------------------------------------------------------------- analysis
\* shakmaty::Square as u8: a1 is 0, b1 is 1, ..., h1 is 7, a2 is 8, ..., h8 is 63
Squares == 0..63

\* Square::C4, Square::E7 and Square::G8
SquareC4 == 26
SquareE7 == 52
SquareG8 == 62

\* the ASCII characters of codes 97..122, 65..90 and 48..57
LowerCase ==
    <<
      "a", "b", "c", "d", "e", "f", "g", "h", "i", "j", "k", "l", "m",
      "n", "o", "p", "q", "r", "s", "t", "u", "v", "w", "x", "y", "z"
    >>
UpperCase ==
    <<
      "A", "B", "C", "D", "E", "F", "G", "H", "I", "J", "K", "L", "M",
      "N", "O", "P", "Q", "R", "S", "T", "U", "V", "W", "X", "Y", "Z"
    >>
Digits ==
    <<
      "0", "1", "2", "3", "4", "5", "6", "7", "8", "9"
    >>

\* (code) as char, for the letters, the digits, the space (32), '!' (33) and
\* '?' (63); the other characters are not told apart
Chr(code) ==
    IF code \in 97..122 THEN LowerCase[code - 96]
    ELSE IF code \in 65..90 THEN UpperCase[code - 64]
    ELSE IF code \in 48..57 THEN Digits[code - 47]
    ELSE IF code = 32 THEN " "
    ELSE IF code = 33 THEN "!"
    ELSE IF code = 63 THEN "?"
    ELSE "other"

\* b'a', b'A' and b'0'
ByteLowerA == 97
ByteUpperA == 65
ByteZero == 48

piotrUpperThroughE7(sq) ==
    IF sq < SquareC4 THEN Chr(ByteLowerA + sq)
    ELSE IF sq <= SquareE7 THEN Chr(ByteUpperA + (sq - SquareC4))
    ELSE IF sq < SquareG8 THEN Chr(ByteZero + (sq - SquareE7))
    ELSE IF sq = SquareG8 THEN Chr(33)
    ELSE Chr(63)

\* analysis::piotr
piotr(sq) ==
    IF sq < SquareC4 THEN Chr(ByteLowerA + sq)
    ELSE IF sq < SquareE7 THEN Chr(ByteUpperA + (sq - SquareC4))
    ELSE IF sq < SquareG8 THEN Chr(ByteZero + (sq - SquareE7))
    ELSE IF sq = SquareG8 THEN Chr(33)
    ELSE Chr(63)

\* enum VariantKey, by the names serde gives its variants
VariantKeys ==
    {"standard", "fromPosition", "chess960", "antichess", "kingOfTheHill", "threeCheck",
     "atomic", "horde", "racingKings", "crazyhouse"}

\* impl From<VariantKey> for EffectiveVariantKey
EffectiveVariantKey(variant) ==
    CASE variant \in {"standard", "fromPosition", "chess960"} -> "Standard"
      [] variant = "antichess" -> "Antichess"
      [] variant = "kingOfTheHill" -> "KingOfTheHill"
      [] variant = "threeCheck" -> "ThreeCheck"
      [] variant = "atomic" -> "Atomic"
      [] variant = "horde" -> "Horde"
      [] variant = "racingKings" -> "RacingKings"
      [] variant = "crazyhouse" -> "Crazyhouse"

\* EffectiveVariantKey::is_opening_sensible
is_opening_sensible(variant) ==
    variant \in {"Standard", "Crazyhouse", "ThreeCheck", "KingOfTheHill"}

\* self.variant.unwrap_or(VariantKey::Standard), then EffectiveVariantKey::from
VariantOf(d) == EffectiveVariantKey(IF d.variant = None THEN "standard" ELSE d.variant)

\* the squares of S in ascending order, as a Bitboard is iterated
Ascending(S) ==
    [i \in 1..Cardinality(S) |-> CHOOSE x \in S : Cardinality({y \in S : y < x}) = i - 1]

\* The boards of the requests: the start position, the position after 1. e4,
\* positions in which the side to move has one piece that can move, a king on
\* sq, and a text that is no FEN.
StartBoard == <<"rnbqkbnr/pppppppp/8/8/8/8/PPPPPPPP/RNBQKBNR w KQkq -">>
KingsPawnBoard == <<"rnbqkbnr/pppppppp/8/8/4P3/8/PPPP1PPP/RNBQKBNR b KQkq -">>
KingBoard(sq) == <<"K", sq>>
InvalidBoard == <<"invalid">>

\* a FEN as the requests give it: the board with turn, castling and en passant
\* square, and whether pockets and remaining checks are given
FenOf(board, pockets, remaining_checks) ==
    [board |-> board, pockets |-> pockets, remaining_checks |-> remaining_checks]

\* the FENs of the three first boards, plain and with pockets and remaining
\* checks
AnalysisFens ==
    {FenOf(b, extra, extra) : b \in {StartBoard, KingsPawnBoard, InvalidBoard},
                              extra \in BOOLEAN}

\* nine squares whose neighbours, with them, are all the squares of the board
KingSquares == {8 * rank + file : rank \in {1, 4, 6}, file \in {1, 4, 6}}

KingFens == {FenOf(KingBoard(sq), FALSE, FALSE) : sq \in KingSquares}

\* self.fen.parse() fails
FenParseErr(fen) == fen.board = InvalidBoard

\* the king steps from sq, in ascending order
KingSteps(sq) ==
    Ascending({to \in Squares :
                 /\ to # sq
                 /\ (to % 8) - (sq % 8) \in {-1, 0, 1}
                 /\ (to \div 8) - (sq \div 8) \in {-1, 0, 1}})

\* Position::us() of the rules engine: the squares of the side to move
Us(board) ==
    IF board = StartBoard THEN [i \in 1..16 |-> i - 1]
    ELSE IF board = KingsPawnBoard THEN [i \in 1..16 |-> 47 + i]
    ELSE <<board[2]>>

MoveOf(from, to) == [from |-> from, to |-> to]

\* Position::legal_moves of the rules engine: the knight moves and the pawn
\* pushes of the two first boards, the steps of the king of the others
LegalMoves(board) ==
    IF board = StartBoard
    THEN <<MoveOf(1, 16), MoveOf(1, 18), MoveOf(6, 21), MoveOf(6, 23)>>
         \o [i \in 1..16 |-> IF i <= 8 THEN MoveOf(7 + i, 15 + i) ELSE MoveOf(i - 1, 15 + i)]
    ELSE IF board = KingsPawnBoard
    THEN <<MoveOf(57, 40), MoveOf(57, 42), MoveOf(62, 45), MoveOf(62, 47)>>
         \o [i \in 1..16 |-> IF i <= 8 THEN MoveOf(47 + i, 39 + i) ELSE MoveOf(39 + i, 23 + i)]
    ELSE [i \in 1..Len(KingSteps(board[2])) |-> MoveOf(board[2], KingSteps(board[2])[i])]

\* FenOpts::new().epd(&fen): pockets and remaining checks are written when given
Epd(fen) == <<fen.board, fen.pockets, fen.remaining_checks>>

\* opening_db::FULL_OPENING_DB, as far as the boards of the requests go: the
\* book starts after the first move
FULL_OPENING_DB ==
    [epd \in {<<KingsPawnBoard, FALSE, FALSE>>} |-> [eco |-> "B00", name |-> "King's Pawn"]]

\* analysis::lookup_opening: <<>> is None
lookup_opening(fen) ==
    LET stripped == [fen EXCEPT !.pockets = FALSE, !.remaining_checks = FALSE]
    IN  IF Epd(stripped) \in DOMAIN FULL_OPENING_DB
        THEN <<FULL_OPENING_DB[Epd(stripped)]>> ELSE <<>>

\* the requests {"t":"opening"} and {"t":"anaDests"}: GetOpening and GetDests
\* (the path and the chapter id are passed through)
AnalysisRequests ==
    {[variant |-> v, fen |-> fen, path |-> "path"] :
        v \in VariantKeys \cup {None}, fen \in AnalysisFens}

\* the requests for the destinations of a king
KingRequests == {[variant |-> None, fen |-> fen, path |-> "path"] : fen \in KingFens}

\* GetOpening::respond: <<>> is None
GetOpeningRespond(d) ==
    IF is_opening_sensible(VariantOf(d))
    THEN IF FenParseErr(d.fen) \/ lookup_opening(d.fen) = <<>> THEN <<>>
         ELSE <<[path |-> d.path, opening |-> lookup_opening(d.fen)[1]]>>
    ELSE <<>>

RECURSIVE DestsLoop(_, _, _, _)
\* the loop of GetDests::respond over the squares us that are left, with the
\* string dests and the flag first of the iterations before
DestsLoop(us, legals, dests, first) ==
    IF us = <<>> THEN dests
    ELSE LET from_sq == Head(us)
             from_here == SelectSeq(legals, LAMBDA m : m.from = from_sq)
         IN  IF from_here # <<>>
             THEN DestsLoop(Tail(us), legals,
                            (IF first THEN Append(dests, Chr(32)) ELSE dests)
                               \o <<piotr(from_sq)>>
                               \o [i \in 1..Len(from_here) |-> piotr(from_here[i].to)],
                            FALSE)
             ELSE DestsLoop(Tail(us), legals, dests, first)

\* Err(DestsFailure)
DestsFailure == [ok |-> FALSE]

\* GetDests::respond; position_ok tells whether the rules engine accepts the
\* position for the variant
GetDestsRespond(d, position_ok) ==
    IF FenParseErr(d.fen) \/ ~position_ok THEN DestsFailure
    ELSE [ok |-> TRUE,
          path |-> d.path,
          opening |-> lookup_opening(d.fen),
          dests |-> DestsLoop(Us(d.fen.board), LegalMoves(d.fen.board), <<>>, TRUE)]

\* enum SocketOut, #[serde(tag = "t")]: the tags of its variants
SocketOutTags ==
    {"p", "notified", "startWatching", "moveLat", "following_onlines", "opening",
     "anaDests", "anaMove", "anaDrop", "evalGet", "evalPut", "ping"}

\* the variants of SocketOut that have a field d, which has no default
SocketOutWithData == {"startWatching", "moveLat", "opening", "anaDests", "anaMove", "anaDrop"}

\* the texts of clients as far as the parser tells them apart: t is the tag
\* (None when the text is no JSON object with a string "t") and d tells whether
\* the text has a "d" that deserializes as the field d of the variant
Texts ==
    [t : SocketOutTags \cup {"unknown", None}, d : {"ok", "bad"}]

SocketOutErr == "Err"

\* serde_json::from_str::<SocketOut>(msg): the tag of the variant or an error;
\* a unit variant ignores the other fields of the object
FromStr(text) ==
    IF text.t \notin SocketOutTags THEN SocketOutErr
    ELSE IF text.t \in SocketOutWithData /\ text.d = "bad" THEN SocketOutErr
    ELSE text.t

\* SocketIn::Opening, SocketIn::Dests and SocketIn::DestsFailure
OpeningMsg(response) == <<"opening", response.path, response.opening>>
DestsMsg(response) == <<"dests", response.path, response.dests, response.opening>>
DestsFailureMsg == <<"destsFailure">>

\* Socket::on_message, {"t":"opening","d":d}
OnMessageOpening(s, d) ==
    /\ ~panicked
    /\ UNCHANGED step_vars
    /\ last' = Call("opening", s, d)
    /\ s \in OpenSockets
    /\ Admitted(s)
    /\ LET response == GetOpeningRespond(d)
       IN  sent' = IF response # <<>>
                   THEN <<Send(s, OpeningMsg(response[1]), TRUE)>> ELSE <<>>
    /\ lock_trace' = <<>>
    /\ UNCHANGED <<socket_id, sockets, by_id, by_user, by_game, flags, watching_mlat,
                   watched_games, mlat, connection_count, redis_sink, sid_sink, panicked,
                   ingress_vars>>

\* Socket::on_message, {"t":"anaDests","d":d}
OnMessageAnaDests(s, d, position_ok) ==
    /\ ~panicked
    /\ UNCHANGED step_vars
    /\ last' = Call("anaDests", s, [d |-> d, position_ok |-> position_ok])
    /\ s \in OpenSockets
    /\ Admitted(s)
    /\ LET response == GetDestsRespond(d, position_ok)
       IN  sent' = IF ~response.ok
                   THEN <<Send(s, DestsFailureMsg, TRUE)>>
                   ELSE <<Send(s, DestsMsg(response), TRUE)>>
    /\ lock_trace' = <<>>
    /\ UNCHANGED <<socket_id, sockets, by_id, by_user, by_game, flags, watching_mlat,
                   watched_games, mlat, connection_count, redis_sink, sid_sink, panicked,
                   ingress_vars>>

\* Socket::on_message, the arms EvalGet, EvalPut and ChallengePing, which only
\* log and return Ok(()), and the arm Err, which closes the socket
OnMessageOther(s, text) ==
    /\ ~panicked
    /\ UNCHANGED step_vars
    /\ last' = Call("message", s, text)
    /\ s \in OpenSockets
    /\ FromStr(text) \in {"evalGet", "evalPut", "ping", SocketOutErr}
    /\ Admitted(s)
    /\ sent' = IF FromStr(text) = SocketOutErr
               THEN <<Send(s, Close("1002"), TRUE)>> ELSE <<>>
    /\ lock_trace' = <<>>
    /\ UNCHANGED <<socket_id, sockets, by_id, by_user, by_game, flags, watching_mlat,
                   watched_games, mlat, connection_count, redis_sink, sid_sink, panicked,
                   ingress_vars>>

\* PlayMove::respond and PlayDrop::respond: the body is unimplemented!(), which
\* panics; no value is returned
PlayStepRespond(d) == [panic |-> TRUE]

\* Socket::on_message, {"t":"anaMove","d":d} and {"t":"anaDrop","d":d}: the
\* argument of self.sender.send is evaluated first, and respond() panics in it
OnMessageAnaStep(s, tag, d) ==
    /\ ~panicked
    /\ UNCHANGED step_vars
    /\ last' = Call(tag, s, d)
    /\ s \in OpenSockets
    /\ Admitted(s)
    /\ LET res == PlayStepRespond(d)
       IN  /\ panicked' = res.panic
           /\ sent' = IF res.panic THEN <<>> ELSE <<Send(s, <<"node">>, TRUE)>>
    /\ lock_trace' = <<>>
    /\ UNCHANGED <<socket_id, sockets, by_id, by_user, by_game, flags, watching_mlat,
                   watched_games, mlat, connection_count, redis_sink, sid_sink,
                   ingress_vars>>

\* --------------------------------------------------------------- on_close
RECURSIVE Unwatch(_, _, _, _)
\* on_close, "Update by_game": for game in self.watching.drain(), in the order
\* the HashSet yields them
Unwatch(order, token, bg, sink) ==
    IF order = <<>> THEN [bg |-> bg, sink |-> sink, panic |-> FALSE]
    ELSE LET game == Head(order)
         IN  IF game \notin DOMAIN bg \/ Position(bg[game], token) = 0
             THEN [bg |-> bg, sink |-> sink, panic |-> TRUE]
             ELSE LET watchers == SwapRemove(bg[game], Position(bg[game], token))
                  IN  IF watchers = <<>>
                      THEN Unwatch(Tail(order), token, RemoveKey(bg, game),
                                   Publish(sink, <<"unwatch", game>>))
                      ELSE Unwatch(Tail(order), token, [bg EXCEPT ![game] = watchers], sink)

\* Socket::on_close, on the part of it that follows "Update by_id"; order is
\* the order in which self.watching.drain() yields the games
CloseRegistered(s, order) ==
    LET u == SetUser(by_id[s], None, by_user, redis_sink)
        g == Unwatch(order, s, by_game, u.sink)
        flag == sockets[s].flag
    IN  /\ by_id' = RemoveKey(by_id, s)
        /\ by_user' = u.bu
        /\ lock_trace' =
              Locked("by_id", "write", <<>>) \o SetUserLocks(by_id[s], None)
                  \o (IF u.panic THEN <<>>
                      ELSE Locked("by_game", "write",
                                  IF g.panic \/ flag = None THEN <<>>
                                  ELSE Locked(FlagLock(flag), "write", <<>>)))
        /\ IF u.panic
           THEN /\ panicked' = TRUE
                /\ redis_sink' = u.sink
                /\ sockets' = [sockets EXCEPT ![s].phase = "closed"]
                /\ UNCHANGED <<by_game, flags>>
           ELSE /\ by_game' = g.bg
                /\ redis_sink' = g.sink
                /\ panicked' = g.panic
                /\ flags' = IF g.panic \/ flag = None THEN flags
                            ELSE [flags EXCEPT ![flag] = @ \ {s}]
                /\ sockets' = [sockets EXCEPT
                                 ![s].phase = "closed",
                                 ![s].watching = {},
                                 ![s].flag = IF g.panic THEN @ ELSE None]

\* Socket::on_close
OnClose(s) ==
    /\ ~panicked
    /\ UNCHANGED step_vars
    /\ s \in OpenSockets
    /\ connection_count' = connection_count - 1
    /\ sent' = <<>>
    /\ IF s \notin DOMAIN by_id
       THEN /\ panicked' = TRUE
            /\ last' = Call("on_close", s, <<>>)
            /\ sockets' = [sockets EXCEPT ![s].phase = "closed"]
            /\ lock_trace' = Locked("by_id", "write", <<>>)
            /\ UNCHANGED <<by_id, by_user, by_game, flags, redis_sink>>
       ELSE \E order \in Orders(sockets[s].watching) :
               /\ last' = Call("on_close", s, order)
               /\ CloseRegistered(s, order)
    /\ idle_timeout' = [idle_timeout EXCEPT ![s] = NoTimeout]
    /\ UNCHANGED <<socket_id, watching_mlat, watched_games, mlat, sid_sink, now,
                   rate_limiter, inbound, ingress_vars>>

\* --------------------------------------------------------------- timeouts
\* the clock advances, up to limit; a timer that is due fires first
Tick(limit) ==
    /\ ~panicked
    /\ UNCHANGED step_vars
    /\ last' = Call("tick", 0, None)
    /\ now < limit
    /\ \A s \in OpenSockets : idle_timeout[s] = NoTimeout \/ idle_timeout[s] > now
    /\ now' = now + TickMs
    /\ sent' = <<>>
    /\ lock_trace' = <<>>
    /\ UNCHANGED <<socket_id, sockets, by_id, by_user, by_game, flags, watching_mlat,
                   watched_games, mlat, connection_count, redis_sink, sid_sink, panicked,
                   rate_limiter, inbound, idle_timeout, ingress_vars>>

\* Socket::on_timeout: the idle timer of the socket is due
OnTimeout(s) ==
    /\ ~panicked
    /\ UNCHANGED step_vars
    /\ last' = Call("on_timeout", s, None)
    /\ s \in OpenSockets
    /\ idle_timeout[s] # NoTimeout
    /\ idle_timeout[s] <= now
    /\ idle_timeout' = [idle_timeout EXCEPT ![s] = NoTimeout]
    /\ sent' = <<Send(s, Close("1001"), TRUE)>>
    /\ lock_trace' = <<>>
    /\ UNCHANGED <<socket_id, sockets, by_id, by_user, by_game, flags, watching_mlat,
                   watched_games, mlat, connection_count, redis_sink, sid_sink, panicked,
                   now, rate_limiter, inbound, ingress_vars>>

\* ---------------------------------------------------------- App::received
\* The Received actions are App::received for one record; they leave the
\* stream of the broker to the turn of the ingress loop that calls them.

\* the Sender of Server::broadcaster(): a send on it reaches every connection
Broadcaster == 0

\* App::received, TellUsers: the senders of the listed users, in the order of
\* the two nested for loops
TellUsersTargets(users) ==
    LET To(k) == IF users[k] \in DOMAIN by_user THEN by_user[users[k]] ELSE <<>>
        All[k \in 0..Len(users)] == IF k = 0 THEN <<>> ELSE All[k - 1] \o To(k)
    IN  All[Len(users)]

TellUsersSendsUntilErr(targets, payload, failing) ==
    LET stop == IF \E i \in 1..Len(targets) : targets[i] \in failing
                THEN CHOOSE i \in 1..Len(targets) :
                        /\ targets[i] \in failing
                        /\ \A j \in 1..(i - 1) : targets[j] \notin failing
                ELSE Len(targets)
    IN  [i \in 1..stop |-> Send(targets[i], payload, targets[i] \notin failing)]

\* App::received, TellUsers: `if let Err(err) = sender.send(..)` logs the error
\* and the loops go on; failing are the sockets whose send returns Err
TellUsersSends(targets, payload, failing) ==
    [i \in 1..Len(targets) |-> Send(targets[i], payload, targets[i] \notin failing)]

\* App::received, LilaOut::TellUsers { users, payload }
ReceivedTellUsers(users, payload) ==
    /\ ~panicked
    /\ UNCHANGED step_vars
    /\ last' = Call("tell-user", 0, [users |-> users, payload |-> payload])
    /\ \E failing \in SUBSET (1..MaxSockets) :
          sent' = TellUsersSends(TellUsersTargets(users), payload, failing)
    /\ lock_trace' = Locked("by_user", "read", <<>>)
    /\ UNCHANGED <<socket_id, sockets, by_id, by_user, by_game, flags, watching_mlat,
                   watched_games, mlat, connection_count, redis_sink, sid_sink, panicked,
                   time_vars>>

\* App::received, LilaOut::TellAll { payload }
ReceivedTellAll(payload) ==
    /\ ~panicked
    /\ UNCHANGED step_vars
    /\ last' = Call("tell-all", 0, None)
    /\ sent' = <<Send(Broadcaster, payload, TRUE)>>
    /\ lock_trace' = <<>>
    /\ UNCHANGED <<socket_id, sockets, by_id, by_user, by_game, flags, watching_mlat,
                   watched_games, mlat, connection_count, redis_sink, sid_sink, panicked,
                   time_vars>>

\* App::received, LilaOut::TellFlag { flag, payload }; order is the order in
\* which the HashSet of the flag is iterated
ReceivedTellFlag(flag, payload, order) ==
    /\ ~panicked
    /\ UNCHANGED step_vars
    /\ last' = Call("tell-flag", 0, flag)
    /\ order \in Orders(flags[flag])
    /\ sent' = [i \in 1..Len(order) |-> Send(order[i], payload, TRUE)]
    /\ lock_trace' = Locked(FlagLock(flag), "read", <<>>)
    /\ UNCHANGED <<socket_id, sockets, by_id, by_user, by_game, flags, watching_mlat,
                   watched_games, mlat, connection_count, redis_sink, sid_sink, panicked,
                   time_vars>>

\* App::received, LilaOut::Move { game, fen, last_uci }
ReceivedMove(game, fen, last_uci) ==
    /\ ~panicked
    /\ UNCHANGED step_vars
    /\ last' = Call("move", 0, <<game, fen, last_uci>>)
    /\ watched_games' = Put(watched_games, game, fen, last_uci)
    /\ sent' = IF game \in DOMAIN by_game
               THEN [i \in 1..Len(by_game[game]) |->
                        Send(by_game[game][i], Fen(game, fen, last_uci), TRUE)]
               ELSE <<>>
    /\ UNCHANGED <<socket_id, sockets, by_id, by_user, by_game, flags, watching_mlat, mlat,
                   connection_count, redis_sink, sid_sink, panicked>>
    /\ lock_trace' = Locked("watched_games", "write", <<>>) \o Locked("by_game", "read", <<>>)
    /\ UNCHANGED time_vars

\* App::received, LilaOut::MoveLatency(m), and the cleanup of the rate limiter
\* that the ingress loop makes on this record; order is the order in which the
\* HashSet watching_mlat is iterated
ReceivedMoveLatency(m, order) ==
    /\ ~panicked
    /\ UNCHANGED step_vars
    /\ last' = Call("mlat", 0, m)
    /\ Len(redis_sink) < MaxEgress
    /\ order \in Orders(watching_mlat)
    /\ redis_sink' = Publish(redis_sink, <<"connections", Connections(connection_count)>>)
    /\ mlat' = m
    /\ sent' = [i \in 1..Len(order) |-> Send(order[i], MoveLatency(m), TRUE)]
    /\ UNCHANGED <<socket_id, sockets, by_id, by_user, by_game, flags, watching_mlat,
                   watched_games, connection_count, sid_sink, panicked>>
    /\ rate_limiter' = Cleanup(rate_limiter, now)
    /\ lock_trace' = Locked("watching_mlat", "read", <<>>)
    /\ UNCHANGED <<now, inbound, idle_timeout>>

\* ------------------------------------------------------------ ingress loop
\* a turn of the ingress loop for a move record, taken as the broker hands it over
IngressMove(game, fen, last_uci) ==
    ReceivedMove(game, fen, last_uci) /\ UNCHANGED ingress_vars

\* a turn of the ingress loop for a tell-user record, taken as the broker hands it over
IngressTellUsers(users, payload) ==
    ReceivedTellUsers(users, payload) /\ UNCHANGED ingress_vars

\* a turn of the ingress loop for an mlat record, taken as the broker hands it over
IngressMoveLatency(m, order) ==
    ReceivedMoveLatency(m, order) /\ UNCHANGED ingress_vars

\* the records of LilaOut
TellUsers(users, payload) == [t |-> "tell-user", users |-> users, payload |-> payload]
TellAll(payload) == [t |-> "tell-all", payload |-> payload]
TellFlag(flag, payload) == [t |-> "tell-flag", flag |-> flag, payload |-> payload]
Move(game, fen, last_uci) == [t |-> "move", game |-> game, fen |-> fen, last_uci |-> last_uci]
Mlat(m) == [t |-> "mlat", mlat |-> m]

\* the backend publishes a record on site-out
BackendPublish(msg) ==
    /\ ~panicked
    /\ UNCHANGED step_vars
    /\ last' = Call("backend", 0, None)
    /\ site_out.published < MaxEvents
    /\ site_out' = [published |-> site_out.published + 1,
                    pending |-> Append(site_out.pending,
                                       [n |-> site_out.published + 1, msg |-> msg])]
    /\ sent' = <<>>
    /\ lock_trace' = <<>>
    /\ UNCHANGED <<socket_id, sockets, by_id, by_user, by_game, flags, watching_mlat,
                   watched_games, mlat, connection_count, redis_sink, sid_sink, panicked,
                   time_vars, wire>>

GetNewestMessage(pending) ==
    [next |-> pending[Len(pending)], rest |-> SubSeq(pending, 1, Len(pending) - 1)]

\* incoming.get_message(): the oldest record of the stream that was not read
GetMessage(pending) == [next |-> Head(pending), rest |-> Tail(pending)]

\* App::received
Received(msg) ==
    \/ msg.t = "tell-user" /\ ReceivedTellUsers(msg.users, msg.payload)
    \/ msg.t = "tell-all" /\ ReceivedTellAll(msg.payload)
    \/ msg.t = "move" /\ ReceivedMove(msg.game, msg.fen, msg.last_uci)
    \/ msg.t = "mlat" /\ \E order \in Orders(watching_mlat) : ReceivedMoveLatency(msg.mlat, order)
    \/ msg.t = "tell-flag" /\ \E order \in Orders(flags[msg.flag]) :
                                  ReceivedTellFlag(msg.flag, msg.payload, order)

\* a turn of the ingress loop: the next record of site-out is dispatched, and
\* wire notes, for each send, the number of the record in the stream
IngressLoop ==
    /\ site_out.pending # <<>>
    /\ LET r == GetMessage(site_out.pending)
       IN  /\ Received(r.next.msg)
           /\ site_out' = [site_out EXCEPT !.pending = r.rest]
           /\ wire' = wire \o [i \in 1..Len(sent') |-> [n |-> r.next.n, to |-> sent'[i].to]]

\* ------------------------------------------- callbacks, one lock at a time
\* Socket::on_close up to the end of the statement "Update by_id": the guard of
\* by_id.write() is dropped there, and user_socket is a local of the handler
OnCloseById(s) ==
    /\ ~panicked
    /\ pc.ws.at = "returned"
    /\ s \in OpenSockets
    /\ s \in DOMAIN by_id
    /\ last' = Call("on_close", s, "by_id")
    /\ connection_count' = connection_count - 1
    /\ idle_timeout' = [idle_timeout EXCEPT ![s] = NoTimeout]
    /\ by_id' = RemoveKey(by_id, s)
    /\ pc' = [pc EXCEPT !.ws = [WsReturned EXCEPT !.at = "on_close:set_user", !.s = s,
                                                  !.user_socket = <<by_id[s]>>]]
    /\ sent' = <<>>
    /\ lock_trace' = Locked("by_id", "write", <<>>)
    /\ UNCHANGED <<socket_id, sockets, by_user, by_game, flags, watching_mlat, watched_games,
                   mlat, redis_sink, sid_sink, panicked, now, rate_limiter, inbound,
                   ingress_vars, threads>>

\* Socket::on_close, user_socket.set_user(None)
OnCloseSetUser ==
    /\ ~panicked
    /\ pc.ws.at = "on_close:set_user"
    /\ last' = Call("on_close", pc.ws.s, "set_user")
    /\ LET u == SetUser(pc.ws.user_socket[1], None, by_user, redis_sink)
       IN  /\ by_user' = u.bu
           /\ redis_sink' = u.sink
           /\ panicked' = u.panic
           /\ pc' = [pc EXCEPT !.ws.at = "on_close:by_game", !.ws.user_socket = <<u.us>>]
    /\ sent' = <<>>
    /\ lock_trace' = SetUserLocks(pc.ws.user_socket[1], None)
    /\ UNCHANGED <<socket_id, sockets, by_id, by_game, flags, watching_mlat, watched_games,
                   mlat, connection_count, sid_sink, time_vars, ingress_vars, threads>>

\* Socket::on_close from "Update by_game" to the end, under the guard of
\* by_game.write(); order is the order in which self.watching.drain() yields
OnCloseByGame ==
    /\ ~panicked
    /\ pc.ws.at = "on_close:by_game"
    /\ \E order \in Orders(sockets[pc.ws.s].watching) :
       LET s == pc.ws.s
           g == Unwatch(order, s, by_game, redis_sink)
           flag == sockets[s].flag
       IN  /\ last' = Call("on_close", s, order)
           /\ by_game' = g.bg
           /\ redis_sink' = g.sink
           /\ panicked' = g.panic
           /\ flags' = IF g.panic \/ flag = None THEN flags
                       ELSE [flags EXCEPT ![flag] = @ \ {s}]
           /\ sockets' = [sockets EXCEPT ![s].phase = "closed", ![s].watching = {},
                                         ![s].flag = IF g.panic THEN @ ELSE None]
           /\ lock_trace' = Locked("by_game", "write",
                                   IF g.panic \/ flag = None THEN <<>>
                                   ELSE Locked(FlagLock(flag), "write", <<>>))
    /\ pc' = [pc EXCEPT !.ws = WsReturned]
    /\ sent' = <<>>
    /\ UNCHANGED <<socket_id, by_id, by_user, watching_mlat, watched_games, mlat,
                   connection_count, sid_sink, time_vars, ingress_vars, threads>>

\* Socket::on_message, startWatching of one game that the socket does not watch
\* yet, up to the end of "If cached, send current game state immediately": the
\* guard of watched_games.read() is dropped at the end of the if let
StartWatchingPeek(s, game) ==
    /\ ~panicked
    /\ pc.ws.at = "returned"
    /\ s \in OpenSockets
    /\ game \notin sockets[s].watching
    /\ last' = Call("startWatching", s, <<game>>)
    /\ Admitted(s)
    /\ sockets' = [sockets EXCEPT ![s].watching = @ \cup {game}]
    /\ LET state == IF Cached(watched_games, game)
                    THEN <<Peek(watched_games, game)>> ELSE <<>>
       IN  /\ sent' = [i \in 1..Len(state) |->
                          Send(s, Fen(game, state[i].fen, state[i].lm), TRUE)]
           /\ pc' = [pc EXCEPT !.ws = [WsReturned EXCEPT !.at = "startWatching:by_game",
                                                         !.s = s, !.game = game,
                                                         !.state = state]]
    /\ lock_trace' = Locked("watched_games", "read", <<>>)
    /\ UNCHANGED <<socket_id, by_id, by_user, by_game, flags, watching_mlat, watched_games,
                   mlat, connection_count, redis_sink, sid_sink, panicked, ingress_vars,
                   threads>>

\* Socket::on_message, startWatching, "Subscribe to updates", and the return
StartWatchingByGame ==
    /\ ~panicked
    /\ pc.ws.at = "startWatching:by_game"
    /\ last' = Call("startWatching", pc.ws.s, "by_game")
    /\ IF FirstWatcher(by_game, pc.ws.game)
       THEN /\ by_game' = PutKey(by_game, pc.ws.game, <<pc.ws.s>>)
            /\ redis_sink' = Publish(redis_sink, <<"watch", pc.ws.game>>)
       ELSE /\ by_game' = [by_game EXCEPT ![pc.ws.game] = Append(@, pc.ws.s)]
            /\ UNCHANGED redis_sink
    /\ pc' = [pc EXCEPT !.ws.at = "returned"]
    /\ sent' = <<>>
    /\ lock_trace' = Locked("by_game", "write", <<>>)
    /\ UNCHANGED <<socket_id, sockets, by_id, by_user, flags, watching_mlat, watched_games,
                   mlat, connection_count, sid_sink, panicked, time_vars, ingress_vars,
                   threads>>

\* App::received, Move: the statement self.watched_games.write().put(..)
ReceivedMovePut(game, fen, last_uci) ==
    /\ ~panicked
    /\ pc.ingress.at = "returned"
    /\ last' = Call("move", 0, <<game, fen, last_uci>>)
    /\ watched_games' = Put(watched_games, game, fen, last_uci)
    /\ pc' = [pc EXCEPT !.ingress = [at |-> "move:by_game",
                                     state |-> <<[game |-> game, fen |-> fen,
                                                  lm |-> last_uci]>>,
                                     to |-> {}]]
    /\ sent' = <<>>
    /\ lock_trace' = Locked("watched_games", "write", <<>>)
    /\ UNCHANGED <<socket_id, sockets, by_id, by_user, by_game, flags, watching_mlat, mlat,
                   connection_count, redis_sink, sid_sink, panicked, time_vars, ingress_vars,
                   threads>>

\* App::received, Move: the fan-out under by_game.read()
ReceivedMoveByGame ==
    /\ ~panicked
    /\ pc.ingress.at = "move:by_game"
    /\ last' = Call("move", 0, "by_game")
    /\ LET m == pc.ingress.state[1]
           entry == IF m.game \in DOMAIN by_game THEN by_game[m.game] ELSE <<>>
       IN  /\ sent' = [i \in 1..Len(entry) |-> Send(entry[i], Fen(m.game, m.fen, m.lm), TRUE)]
           /\ pc' = [pc EXCEPT !.ingress.at = "returned",
                               !.ingress.to = {entry[i] : i \in 1..Len(entry)}]
    /\ lock_trace' = Locked("by_game", "read", <<>>)
    /\ UNCHANGED <<socket_id, sockets, by_id, by_user, by_game, flags, watching_mlat,
                   watched_games, mlat, connection_count, redis_sink, sid_sink, panicked,
                   time_vars, ingress_vars, threads>>

\* ------------------------------------------------- callbacks, lock by lock
\* the lock operations that a callback of thread t can make, in program order:
\* for "ws" on_open, the p, notified and following_onlines messages,
\* startWatching of up to MaxWatchMsg games (with and without a failed send),
\* moveLat and on_close; for "lookup" a turn of the worker; for "ingress"
\* App::received of TellUsers, Move, MoveLatency and TellFlag
Callbacks(t) ==
    LET flag_section == {<<>>} \cup {Locked(FlagLock(f), "write", <<>>) : f \in Flag}
        auths == {Requested, Anonymous} \cup {Authenticated(u) : u \in Users}
        peek == Locked("watched_games", "read", <<>>)
        watch == peek \o Locked("by_game", "write", <<>>)
        RECURSIVE Watches(_)
        Watches(n) == IF n = 0 THEN {<<>>}
                      ELSE {watch \o w : w \in Watches(n - 1)} \cup {<<>>}
    IN  CASE t = "ws" ->
                {Locked("by_id", "write", <<>>) \o fl : fl \in flag_section}
                    \cup {Locked("by_id", "read", <<>>), Locked("by_id", "write", <<>>),
                          Locked("watching_mlat", "write", <<>>)}
                    \cup (Watches(MaxWatchMsg) \ {<<>>})
                    \cup {w \o peek : w \in Watches(MaxWatchMsg - 1)}
                    \cup {Locked("by_id", "write", <<>>)
                              \o SetUserLocks([auth |-> a], None)
                              \o Locked("by_game", "write", fl) :
                            a \in auths, fl \in flag_section}
          [] t = "lookup" ->
                {Locked("by_id", "write", <<>>)}
                    \cup {Locked("by_id", "write", SetUserLocks([auth |-> Requested], m)) :
                            m \in Users \cup {None}}
          [] t = "ingress" ->
                {Locked("by_user", "read", <<>>),
                 Locked("watched_games", "write", <<>>) \o Locked("by_game", "read", <<>>),
                 Locked("watching_mlat", "read", <<>>)}
                    \cup {Locked(FlagLock(f), "read", <<>>) : f \in Flag}

\* parking_lot RwLock: write() returns when no guard of the lock is alive,
\* read() when no write guard is
CanAcquire(lock, mode) ==
    \A u \in Threads : \A h \in threads[u].held :
        h.lock = lock => (mode = "read" /\ h.mode = "read")

\* thread t enters a callback
Begin(t, program) ==
    /\ ~panicked
    /\ threads[t].ops = <<>>
    /\ program \in Callbacks(t)
    /\ threads' = [threads EXCEPT ![t].ops = program]
    /\ UNCHANGED <<socket_id, sockets, by_id, by_user, by_game, flags, watching_mlat,
                   watched_games, mlat, connection_count, redis_sink, sid_sink, sent, last,
                   panicked, time_vars, ingress_vars, lock_trace, pc>>

\* thread t returns from read() or write() with the guard
AcquireGuard(t) ==
    /\ ~panicked
    /\ threads[t].ops # <<>>
    /\ Head(threads[t].ops).op = "acquire"
    /\ CanAcquire(Head(threads[t].ops).lock, Head(threads[t].ops).mode)
    /\ threads' = [threads EXCEPT
                     ![t].ops = Tail(@),
                     ![t].held = @ \cup {[lock |-> Head(threads[t].ops).lock,
                                          mode |-> Head(threads[t].ops).mode]}]
    /\ UNCHANGED <<socket_id, sockets, by_id, by_user, by_game, flags, watching_mlat,
                   watched_games, mlat, connection_count, redis_sink, sid_sink, sent, last,
                   panicked, time_vars, ingress_vars, lock_trace, pc>>

\* thread t drops a guard
DropGuard(t) ==
    /\ ~panicked
    /\ threads[t].ops # <<>>
    /\ Head(threads[t].ops).op = "release"
    /\ threads' = [threads EXCEPT
                     ![t].ops = Tail(@),
                     ![t].held = {h \in @ : h.lock # Head(threads[t].ops).lock}]
    /\ UNCHANGED <<socket_id, sockets, by_id, by_user, by_game, flags, watching_mlat,
                   watched_games, mlat, connection_count, redis_sink, sid_sink, sent, last,
                   panicked, time_vars, ingress_vars, lock_trace, pc>>

\* ------------------------------------------------------------ specifications
\* authentication: cookies, session lookups, intents and pings; no flags
NextAuth ==
    \/ Factory
    \/ \E s \in 1..MaxSockets : OnOpenClientAddrErr(s)
    \/ \E s \in 1..MaxSockets, has_cookie \in BOOLEAN : OnOpen(s, None, has_cookie, None)
    \/ \E maybe_uid \in Users \cup {None} : SessionLookup(maybe_uid)
    \/ \E s \in 1..MaxSockets, l \in {<<>>} \cup {<<lag>> : lag \in Lags} :
          OnMessagePing(s, PingLen, l)
    \/ \E s \in 1..MaxSockets : OnMessageNotified(s)
    \/ \E s \in 1..MaxSockets : OnMessageFollowingOnlines(s)
    \/ \E s \in 1..MaxSockets : OnClose(s)

SpecAuth == Init /\ [][NextAuth]_vars

\* the sequences of 1..n game ids
GameLists(n) == UNION {[1..m -> Games] : m \in 1..n}

\* watching: startWatching and backend moves; no cookies, no flags
NextWatch ==
    \/ Factory
    \/ \E s \in 1..MaxSockets : OnOpen(s, None, FALSE, None)
    \/ \E s \in 1..MaxSockets, d \in GameLists(MaxWatchMsg) :
          \E fail_at \in 0..Len(d) : OnMessageStartWatching(s, d, fail_at)
    \/ \E game \in Games, pos \in Positions : IngressMove(game, pos[1], pos[2])
    \/ \E s \in 1..MaxSockets : OnClose(s)

SpecWatch == Init /\ [][NextWatch]_vars

\* flags: sockets opened with and without a flag, watching one game
NextFlag ==
    \/ Factory
    \/ \E s \in 1..MaxSockets, flag \in Flag \cup {None} : OnOpen(s, None, FALSE, flag)
    \/ \E s \in 1..MaxSockets, fail_at \in 0..1 : OnMessageStartWatching(s, <<"g1">>, fail_at)
    \/ IngressMove("g1", "fenA", "e2e4")
    \/ \E s \in 1..MaxSockets : OnClose(s)

SpecFlag == Init /\ [][NextFlag]_vars

\* statistics: the connection count and the move latency subscription
NextStats ==
    \/ Factory
    \/ \E s \in 1..MaxSockets : OnOpen(s, None, FALSE, None)
    \/ \E s \in 1..MaxSockets, d \in BOOLEAN, send_ok \in BOOLEAN :
          OnMessageMoveLatency(s, d, send_ok)
    \/ \E m \in Mlats, order \in UNION {Orders(S) : S \in SUBSET (1..MaxSockets)} :
          IngressMoveLatency(m, order)
    \/ \E s \in 1..MaxSockets : OnClose(s)

SpecStats == Init /\ [][NextStats]_vars

\* the backend stream: sockets of alice with the simul flag, game g1 and the
\* move latency subscription, and the five kinds of record
NextOrder ==
    \/ Factory
    \/ \E s \in 1..MaxSockets : OnOpen(s, None, TRUE, "simul")
    \/ SessionLookup("alice")
    \/ \E s \in 1..MaxSockets : OnMessageStartWatching(s, <<"g1">>, 0)
    \/ \E s \in 1..MaxSockets : OnMessageMoveLatency(s, TRUE, TRUE)
    \/ \E payload \in Payloads : BackendPublish(TellUsers(<<"alice">>, payload))
    \/ \E payload \in Payloads : BackendPublish(TellAll(payload))
    \/ \E payload \in Payloads : BackendPublish(TellFlag("simul", payload))
    \/ BackendPublish(Move("g1", "fenA", "e2e4"))
    \/ \E m \in Mlats : BackendPublish(Mlat(m))
    \/ IngressLoop

SpecOrder == Init /\ [][NextOrder]_vars

\* idle timers: sockets of one client address, pings, and the clock, with the
\* option --rate-limiter-credits set to IdleCredits
NextIdle ==
    \/ Factory
    \/ \E s \in 1..MaxSockets : OnOpen(s, "10.0.0.1", FALSE, None)
    \/ \E s \in 1..MaxSockets : OnMessageNull(s)
    \/ \E s \in 1..MaxSockets : OnMessageRateLimited(s)
    \/ Tick(MaxIdleTime)
    \/ \E s \in 1..MaxSockets : OnTimeout(s)
    \/ \E s \in 1..MaxSockets : OnClose(s)

SpecIdle == InitOpt(IdleCredits) /\ [][NextIdle]_vars

\* message sizes: texts of the lengths of Lengths
NextSize ==
    \/ Factory
    \/ \E s \in 1..MaxSockets, has_cookie \in BOOLEAN : OnOpen(s, None, has_cookie, None)
    \/ SessionLookup("alice")
    \/ \E s \in 1..MaxSockets : OnMessageNull(s)
    \/ \E s \in 1..MaxSockets, len \in Lengths : OnMessageTooLong(s, len)
    \/ \E s \in 1..MaxSockets, len \in Lengths, l \in {<<>>} \cup {<<lag>> : lag \in Lags} :
          OnMessagePing(s, len, l)
    \/ \E s \in 1..MaxSockets : OnClose(s)

SpecSize == Init /\ [][NextSize]_vars

\* rate limit: sockets of one client address and sockets without an address,
\* pings, and the clock
NextRate ==
    \/ Factory
    \/ \E s \in 1..MaxSockets, addr \in {"10.0.0.1", None} : OnOpen(s, addr, FALSE, None)
    \/ \E s \in 1..MaxSockets : OnMessageNull(s)
    \/ \E s \in 1..MaxSockets : OnMessageRateLimited(s)
    \/ Tick(MaxRateTime)

SpecRate == Init /\ [][NextRate]_vars

\* the parser: sockets and the texts that no other action handles
NextParse ==
    \/ Factory
    \/ \E s \in 1..MaxSockets : OnOpen(s, None, FALSE, None)
    \/ \E s \in 1..MaxSockets, text \in Texts : OnMessageOther(s, text)
    \/ \E s \in 1..MaxSockets : OnClose(s)

SpecParse == Init /\ [][NextParse]_vars

\* analysis: sockets and the requests for openings and destinations
NextAnalysis ==
    \/ Factory
    \/ \E s \in 1..MaxSockets : OnOpen(s, None, FALSE, None)
    \/ \E s \in 1..MaxSockets, d \in AnalysisRequests : OnMessageOpening(s, d)
    \/ \E s \in 1..MaxSockets, d \in AnalysisRequests, position_ok \in BOOLEAN :
          OnMessageAnaDests(s, d, position_ok)
    \/ \E s \in 1..MaxSockets, d \in KingRequests : OnMessageAnaDests(s, d, TRUE)
    \/ \E s \in 1..MaxSockets : OnClose(s)

SpecAnalysis == Init /\ [][NextAnalysis]_vars

\* the egress stream: sockets of alice that ping, watch g1 and close, the
\* intents of the first of them, and the move latency of the backend
NextEgress ==
    \/ Factory
    \/ \E s \in 1..MaxSockets : OnOpen(s, None, TRUE, None)
    \/ SessionLookup("alice")
    \/ \E s \in 1..MaxSockets : OnMessagePing(s, PingLen, <<7>>)
    \/ OnMessageNotified(1)
    \/ OnMessageFollowingOnlines(1)
    \/ \E s \in 1..MaxSockets : OnMessageStartWatching(s, <<"g1">>, 0)
    \/ \E m \in Mlats : IngressMoveLatency(m, <<>>)
    \/ \E s \in 1..MaxSockets : OnClose(s)

SpecEgress == Init /\ [][NextEgress]_vars

\* the lists of 1..n user ids
UserLists(n) == UNION {[1..m -> Users] : m \in 1..n}

\* tell-user: sockets with and without a session, lookups, closes, and
\* tell-user records for one or two users
NextTell ==
    \/ Factory
    \/ \E s \in 1..MaxSockets, has_cookie \in BOOLEAN : OnOpen(s, None, has_cookie, None)
    \/ \E maybe_uid \in Users \cup {None} : SessionLookup(maybe_uid)
    \/ \E users \in UserLists(MaxTellUsers), payload \in Payloads :
          IngressTellUsers(users, payload)
    \/ \E s \in 1..MaxSockets : OnClose(s)

SpecTell == Init /\ [][NextTell]_vars

\* analysis steps: sockets, the requests for openings, and anaMove and anaDrop
NextStep ==
    \/ Factory
    \/ \E s \in 1..MaxSockets : OnOpen(s, None, FALSE, None)
    \/ \E s \in 1..MaxSockets, d \in AnalysisRequests : OnMessageOpening(s, d)
    \/ \E s \in 1..MaxSockets, tag \in {"anaMove", "anaDrop"}, d \in AnalysisRequests :
          OnMessageAnaStep(s, tag, d)
    \/ \E s \in 1..MaxSockets : OnClose(s)

SpecStep == Init /\ [][NextStep]_vars

\* authentication with a lookup worker that keeps running: sockets with and
\* without a session cookie, intents, closes, and the turns of the worker
NextResolve ==
    \/ Factory
    \/ \E s \in 1..MaxSockets, has_cookie \in BOOLEAN : OnOpen(s, None, has_cookie, None)
    \/ \E maybe_uid \in Users \cup {None} : SessionLookup(maybe_uid)
    \/ \E s \in 1..MaxSockets : OnMessageNotified(s)
    \/ \E s \in 1..MaxSockets : OnClose(s)

\* the loop of the lookup thread blocks only in sid_recv.recv(): while a request
\* is queued and every store query returns, it takes its next turn
SpecResolve ==
    /\ Init
    /\ [][NextResolve]_vars
    /\ WF_vars(\E maybe_uid \in Users \cup {None} : SessionLookup(maybe_uid))

\* the event loop thread, the lookup thread and the ingress thread running
\* together, with on_close, startWatching and the dispatch of a move taken one
\* critical section at a time: sockets with and without a session cookie that
\* watch g1 and close, lookups, and moves of g1
NextRace ==
    \/ pc.ws.at = "returned" /\ Factory
    \/ pc.ws.at = "returned" /\
          \E s \in 1..MaxSockets, has_cookie \in BOOLEAN : OnOpen(s, None, has_cookie, None)
    \/ \E maybe_uid \in {"alice", None} : SessionLookup(maybe_uid)
    \/ \E s \in 1..MaxSockets : StartWatchingPeek(s, "g1")
    \/ StartWatchingByGame
    \/ \E pos \in Positions : ReceivedMovePut("g1", pos[1], pos[2])
    \/ ReceivedMoveByGame
    \/ \E s \in 1..MaxSockets : OnCloseById(s)
    \/ OnCloseSetUser
    \/ OnCloseByGame

SpecRace == Init /\ [][NextRace]_vars

\* the locks: the three threads run their callbacks lock operation by lock
\* operation, in every interleaving
NextLocks ==
    \/ \E t \in Threads : \E program \in Callbacks(t) : Begin(t, program)
    \/ \E t \in Threads : AcquireGuard(t)
    \/ \E t \in Threads : DropGuard(t)

SpecLocks == Init /\ [][NextLocks]_vars

\* ------------------------------------------------------------------ claims
\* the positions of connect/u and disconnect/u in a stream of records
ConnIdx(sink, u) ==
    {i \in 1..Len(sink) : sink[i] \in {<<"connect", u>>, <<"disconnect", u>>}}

\* the most recent of connect/u and disconnect/u in the stream is connect/u
Online(sink, u) ==
    /\ ConnIdx(sink, u) # {}
    /\ \E i \in ConnIdx(sink, u) :
          /\ sink[i] = <<"connect", u>>
          /\ \A j \in ConnIdx(sink, u) : j <= i

\* how many more records rec the stream holds after the step
Delta(rec) == Count(redis_sink', rec) - Count(redis_sink, rec)

\* C1: for every user U, by_user[U] is non-empty iff the most recent of
\* connect/U and disconnect/U handed to the egress channel is connect/U, and
\* the connect/U and disconnect/U records strictly alternate, starting with
\* connect/U (so a second socket of U publishes no connect, and closing a
\* socket that is not the last of U publishes no disconnect).
C1_ConnectDisconnectAlternate ==
    \A u \in Users :
        /\ (u \in DOMAIN by_user /\ by_user[u] # <<>>) <=> Online(redis_sink, u)
        /\ \A i \in ConnIdx(redis_sink, u) :
              redis_sink[i] =
                  IF Cardinality({j \in ConnIdx(redis_sink, u) : j < i}) % 2 = 0
                  THEN <<"connect", u>> ELSE <<"disconnect", u>>

\* two sockets are authenticated as alice and one connect/alice was published
C1_Witness ==
    /\ "alice" \in DOMAIN by_user
    /\ Len(by_user["alice"]) = 2
    /\ Count(redis_sink, <<"connect", "alice">>) = 1

\* C3: for every socket S and user U, the sender of S is in by_user[U] iff S
\* is registered with auth = Authenticated(U); it is then there exactly once,
\* and by_user maps no user to an empty list.
C3_ByUserIffAuthenticated ==
    /\ \A u \in DOMAIN by_user : by_user[u] # <<>>
    /\ \A s \in 1..MaxSockets, u \in Users :
          LET n == IF u \in DOMAIN by_user THEN Count(by_user[u], s) ELSE 0
          IN  /\ n <= 1
              /\ n = 1 <=> (s \in DOMAIN by_id /\ by_id[s].auth = Authenticated(u))

\* a socket authenticated as the last of its user has just closed, while
\* another socket is still authenticated
C3_Witness ==
    /\ last.op = "on_close"
    /\ \E u \in Users : redis_sink[Len(redis_sink)] = <<"disconnect", u>>
    /\ \E s \in DOMAIN by_id : by_id[s].auth.kind = "Authenticated"

\* C6: while a socket is Requested its notified and following_onlines
\* messages publish nothing and are remembered; the step that makes it
\* Authenticated(U) publishes exactly one notified/U (friends/U) if the intent
\* is pending and none otherwise; the step that makes it Anonymous, or closes
\* it, publishes none; and no socket that has left Requested has a pending
\* flag set.
C6_Step ==
    /\ \A s \in DOMAIN by_id' :
          by_id'[s].auth.kind # "Requested" =>
              ~by_id'[s].pending_notified /\ ~by_id'[s].pending_following_onlines
    /\ \A s \in DOMAIN by_id :
          by_id[s].auth.kind = "Requested" =>
              IF s \notin DOMAIN by_id'
              THEN \A u \in Users : Delta(<<"notified", u>>) = 0 /\ Delta(<<"friends", u>>) = 0
              ELSE IF by_id'[s].auth.kind = "Requested"
              THEN /\ by_id'[s] # by_id[s] => redis_sink' = redis_sink
                   /\ by_id[s].pending_notified => by_id'[s].pending_notified
                   /\ by_id[s].pending_following_onlines => by_id'[s].pending_following_onlines
                   /\ (last'.op = "notified" /\ last'.s = s) => by_id'[s].pending_notified
                   /\ (last'.op = "following_onlines" /\ last'.s = s)
                          => by_id'[s].pending_following_onlines
              ELSE \A u \in Users :
                      /\ Delta(<<"notified", u>>) =
                            IF by_id'[s].auth = Authenticated(u) /\ by_id[s].pending_notified
                            THEN 1 ELSE 0
                      /\ Delta(<<"friends", u>>) =
                            IF by_id'[s].auth = Authenticated(u)
                               /\ by_id[s].pending_following_onlines
                            THEN 1 ELSE 0

C6_DeferredIntents == [][C6_Step]_vars

\* the session lookup of a socket has just resolved to bob and replayed its
\* deferred notified
C6_Witness ==
    /\ last.op = "session_lookup"
    /\ last.arg = "bob"
    /\ redis_sink[Len(redis_sink)] = <<"notified", "bob">>

\* C7: connection_count equals the number of open sockets.
C7_ConnectionCount == connection_count = Cardinality(OpenSockets)

\* a socket whose on_open failed at client_addr() has been destroyed
C7_Witness ==
    /\ last.op = "on_close"
    /\ sockets[last.s].phase = "closed"
    /\ panicked
    /\ \E s \in OpenSockets : s \in DOMAIN by_id

\* C8: a socket id is a key of by_id iff the socket is open, and every lookup
\* of a socket's own id in by_id by one of its handlers finds an entry.
C8_ByIdIffOpen ==
    /\ \A s \in 1..MaxSockets : s \in DOMAIN by_id <=> s \in OpenSockets
    /\ ~panicked

\* the positions of watch/g and unwatch/g in a stream of records
WatchIdx(sink, g) ==
    {i \in 1..Len(sink) : sink[i] \in {<<"watch", g>>, <<"unwatch", g>>}}

\* the most recent of watch/g and unwatch/g in the stream is watch/g
Watched(sink, g) ==
    /\ WatchIdx(sink, g) # {}
    /\ \E i \in WatchIdx(sink, g) :
          /\ sink[i] = <<"watch", g>>
          /\ \A j \in WatchIdx(sink, g) : j <= i

C4_ByGameIffWatching ==
    /\ \A g \in DOMAIN by_game : by_game[g] # <<>>
    /\ \A s \in DOMAIN sockets, g \in Games :
          LET n == IF g \in DOMAIN by_game THEN Count(by_game[g], s) ELSE 0
          IN  /\ n <= 1
              /\ n = 1 <=> g \in sockets[s].watching
    /\ ~panicked

\* C5: the sender of a socket is in watching_mlat iff the socket is open and
\* the last moveLat message it sent had d = true.
C5_WatchingMlatIffSubscribed ==
    \A s \in 1..MaxSockets :
        s \in watching_mlat <=>
            (s \in OpenSockets /\ sockets[s].move_lat = <<TRUE>>)

\* C9: the sender of a socket is in by_flag[f] iff the socket is open and was
\* opened with flag f; so a socket without a flag, and a closed socket, are
\* in no flag set.
C9_FlagSets ==
    \A s \in 1..MaxSockets, f \in Flag :
        s \in flags[f] <=> (s \in OpenSockets /\ sockets[s].flag = f)

\* a socket starts to watch game g, which is in the watched-games cache
StartsWatchingCached(s, g) ==
    /\ g \in sockets'[s].watching \ sockets[s].watching
    /\ Cached(watched_games, g)

\* the call of send in the step that gives socket s the cached state of g
FenSends(s, g) ==
    {i \in 1..Len(sent') :
        /\ sent'[i].to = s
        /\ \E k \in 1..Len(watched_games) :
              /\ watched_games[k].game = g
              /\ sent'[i].msg = <<"fen", g, watched_games[k].fen, watched_games[k].lm>>}

\* C10, as stated: when a socket starts to watch a cached game g, the fen
\* message built from the cache entry of g is sent to it and no watch/g is
\* published.
C10_Original_Step ==
    \A s \in DOMAIN sockets, g \in Games :
        StartsWatchingCached(s, g) =>
            /\ FenSends(s, g) # {}
            /\ Delta(<<"watch", g>>) = 0

C10_Original == [][C10_Original_Step]_vars

\* C10, amended: when a socket starts to watch a cached game g, the fen
\* message built from the cache entry of g is sent to it, once; if that send
\* succeeds the socket is registered in by_game[g], and watch/g is published
\* iff g had no watcher in by_game before; if the send fails nothing is
\* registered or published for g.
C10_Amended_Step ==
    \A s \in DOMAIN sockets, g \in Games :
        StartsWatchingCached(s, g) =>
            /\ Cardinality(FenSends(s, g)) = 1
            /\ Cardinality({i \in 1..Len(sent') : sent'[i].msg[2] = g}) = 1
            /\ \A i \in FenSends(s, g) :
                  /\ Delta(<<"watch", g>>) =
                        IF sent'[i].ok /\ g \notin DOMAIN by_game THEN 1 ELSE 0
                  /\ (g \in DOMAIN by_game' /\ Count(by_game'[g], s) = 1) <=> sent'[i].ok

C10_WatchCached == [][C10_Amended_Step]_vars

\* a socket has just been sent the cached state of g1, which another socket
\* already watched: no second watch/g1 was published
C10_Witness ==
    /\ last.op = "startWatching"
    /\ \E i \in 1..Len(sent) : sent[i].ok /\ sent[i].msg[1] = "fen" /\ sent[i].msg[2] = "g1"
    /\ Len(by_game["g1"]) = 2
    /\ Count(redis_sink, <<"watch", "g1">>) = 1

\* C11: on every backend mlat v event exactly one record is published, it is
\* connections/N with N = max(0, connection_count), so never negative; the
\* mlat message with value v is sent once to every socket in watching_mlat and
\* to no other socket; the mlat atomic holds v afterwards; no other step
\* changes it, and a moveLat subscription reads the value it holds.
C11_Step ==
    /\ last'.op = "mlat" =>
          /\ \E n \in 0..MaxSockets :
                /\ n = (IF connection_count > 0 THEN connection_count ELSE 0)
                /\ redis_sink' = Append(redis_sink, <<"connections", n>>)
          /\ {sent'[i].to : i \in 1..Len(sent')} = watching_mlat
          /\ Len(sent') = Cardinality(watching_mlat)
          /\ \A i \in 1..Len(sent') : sent'[i].msg = <<"mlat", last'.arg>>
          /\ mlat' = last'.arg
    /\ last'.op # "mlat" =>
          /\ mlat' = mlat
          /\ \A i \in 1..Len(sent') : sent'[i].msg[1] = "mlat" => sent'[i].msg[2] = mlat

C11_MlatEvent == [][C11_Step]_vars

\* an mlat event has just been dispatched while two sockets were open and
\* subscribed: connections/2 was published and both were sent the value
C11_Witness ==
    /\ last.op = "mlat"
    /\ mlat = "123"
    /\ Len(sent) = 2
    /\ redis_sink[Len(redis_sink)] = <<"connections", 2>>

\* C12: if the backend publishes record e1 before record e2 on site-out and
\* both are routed to socket S (by tell-user, tell-flag, tell-all, move or
\* mlat), the send of e1's message to S is made before the send of e2's: in
\* the order of the sends, the record numbers of the sends that reach S (its
\* own sender, or the broadcaster) never decrease.
C12_BackendOrder ==
    \A s \in 1..MaxSockets :
        \A i, j \in 1..Len(wire) :
            (/\ i < j
             /\ wire[i].to \in {s, Broadcaster}
             /\ wire[j].to \in {s, Broadcaster}) => wire[i].n <= wire[j].n

\* a socket was sent the message of the first record and then the message of
\* the second one, which was routed another way
C12_Witness ==
    /\ last.op = "tell-flag"
    /\ \E i, j \in 1..Len(wire) :
          /\ i < j
          /\ wire[i].to = wire[j].to
          /\ wire[i].to # Broadcaster
          /\ wire[i].n = 1
          /\ wire[j].n = 2
    /\ mlat # U32Max

\* the locks held just before the i-th lock operation of a trace
Held(trace, i) ==
    {trace[j].lock : j \in {k \in 1..(i - 1) :
        /\ trace[k].op = "acquire"
        /\ \A r \in (k + 1)..(i - 1) :
              ~(trace[r].op = "release" /\ trace[r].lock = trace[k].lock)}}

\* C13: no thread acquires the lock of one of by_user, by_game, by_id,
\* by_flag[*], watching_mlat, watched_games while it holds the lock of another
\* of them: every acquisition of a callback is made with no lock held.
C13_SingleMapLocking ==
    \A i \in 1..Len(lock_trace) :
        lock_trace[i].op = "acquire" => Held(lock_trace, i) = {}

\* the callbacks that are on_message
MessageOps ==
    {"rate limited", "null", "too long", "p", "notified", "following_onlines",
     "startWatching", "moveLat", "opening", "anaDests", "message"}

\* the part of C14 that does not depend on the rate limiter: on_open starts the
\* idle timer, on_timeout runs only when the timer of the socket is due, which
\* is IDLE_TIMEOUT_MS after it was last started, and closes the socket with
\* code 1001; no other callback closes with 1001; the clock does not advance
\* while a timer is due; on_close cancels the timer and nothing else touches
\* it.
C14_Timer(s) ==
    /\ (last'.s = s /\ last'.op = "on_open" /\ s \in DOMAIN by_id') =>
          idle_timeout'[s] = now + IDLE_TIMEOUT_MS
    /\ (last'.s = s /\ last'.op = "on_timeout") =>
          /\ idle_timeout[s] # NoTimeout
          /\ now >= idle_timeout[s]
          /\ sent' = <<Send(s, Close("1001"), TRUE)>>
    /\ \A i \in 1..Len(sent') : sent'[i].msg = Close("1001") => last'.op = "on_timeout"
    /\ (last'.op = "tick" /\ s \in OpenSockets /\ idle_timeout[s] # NoTimeout) =>
          idle_timeout[s] > now
    /\ (last'.s = s /\ last'.op = "on_close") => idle_timeout'[s] = NoTimeout
    /\ (last'.s # s \/ last'.op \notin MessageOps \cup {"on_open", "on_timeout", "on_close"})
          => idle_timeout'[s] = idle_timeout[s]

\* C14, as stated: every inbound message on an open socket, also one that the
\* rate limiter drops, sets the idle timer of the socket to 15 s from now.
C14_Original_Step ==
    \A s \in 1..MaxSockets :
        /\ (last'.s = s /\ last'.op \in MessageOps) =>
              idle_timeout'[s] = now + IDLE_TIMEOUT_MS
        /\ C14_Timer(s)

C14_Original == [][C14_Original_Step]_vars

\* C14, amended: every inbound message that the rate limiter admits sets the
\* idle timer of the socket to 15 s from now, and a message that the rate
\* limiter drops leaves the timer as it is; the socket is closed with code
\* 1001 when the timer is due, 15 s after the last admitted message (or the
\* open), so an admitted message before expiry postpones the close.
C14_Amended_Step ==
    \A s \in 1..MaxSockets :
        /\ (last'.s = s /\ last'.op \in MessageOps \ {"rate limited"}) =>
              idle_timeout'[s] = now + IDLE_TIMEOUT_MS
        /\ (last'.s = s /\ last'.op = "rate limited") =>
              idle_timeout'[s] = idle_timeout[s]
        /\ C14_Timer(s)

C14_IdleTimer == [][C14_Amended_Step]_vars

\* a socket whose last message, at 5 s, was admitted is closed by its idle
\* timer at 20 s, while the other socket of the address had a message dropped
C14_Witness ==
    /\ last.op = "on_timeout"
    /\ now = 4 * TickMs
    /\ ~sockets[last.s].rate_limited_once
    /\ \E s \in OpenSockets : sockets[s].rate_limited_once

\* the callbacks that are on_message for a text that was parsed and dispatched
DispatchedOps == MessageOps \ {"rate limited", "null", "too long"}

\* C15: an admitted text other than "null" is parsed and dispatched iff it is at
\* most 1024 bytes long: a ping of up to 1024 bytes is answered, its lag is
\* published when the socket is authenticated, and a ping of exactly 1024
\* bytes can be handled on every open socket; a text of 1025 bytes or more closes the socket with code 1009 and
\* is not dispatched (nothing is published, no table changes), and nothing
\* else closes with 1009.
C15_Step ==
    /\ last'.op = "p" =>
          /\ last'.arg.len <= 1024
          /\ \A i \in 1..Len(sent') : sent'[i].msg # Close("1009")
          /\ ~panicked' => sent' = <<Send(last'.s, Pong, TRUE)>>
          /\ (/\ last'.arg.l # <<>>
              /\ last'.arg.l[1] >= 0
              /\ last'.s \in DOMAIN by_id
              /\ by_id[last'.s].auth.kind = "Authenticated") =>
                 redis_sink' = Append(redis_sink, <<"lag", by_id[last'.s].auth.uid,
                                                   last'.arg.l[1]>>)
    /\ last'.op = "too long" =>
          /\ last'.arg >= 1025
          /\ sent' = <<Send(last'.s, Close("1009"), TRUE)>>
          /\ UNCHANGED <<sockets, by_id, by_user, by_game, flags, watching_mlat,
                         watched_games, mlat, connection_count, redis_sink, sid_sink>>
    /\ (\E i \in 1..Len(sent') : sent'[i].msg = Close("1009")) => last'.op = "too long"
    /\ \A s \in OpenSockets :
          /\ (~panicked /\ Len(redis_sink) < MaxEgress) =>
                 ENABLED OnMessagePing(s, 1024, <<>>)
          /\ ~ENABLED OnMessagePing(s, 1025, <<>>)
          /\ ~panicked => ENABLED OnMessageTooLong(s, 1025)
          /\ ~ENABLED OnMessageTooLong(s, 1024)

C15_SizeBoundary == [][C15_Step]_vars

\* a text of exactly 1025 bytes has closed a socket with code 1009, while the
\* backend was told the lag of an earlier ping
C15_Witness ==
    /\ last.op = "too long"
    /\ last.arg = 1025
    /\ sent = <<Send(last.s, Close("1009"), TRUE)>>
    /\ \E i \in 1..Len(redis_sink) : redis_sink[i][1] = "lag"

\* the sockets of client address addr that are open
SocketsOf(addr) == {s \in OpenSockets : sockets[s].client_addr = addr}

DroppedSilently ==
    /\ sent' = <<>>
    /\ sockets' = [sockets EXCEPT ![last'.s].rate_limited_once = TRUE]
    /\ UNCHANGED <<by_id, by_user, by_game, flags, watching_mlat, watched_games, mlat,
                   connection_count, redis_sink, sid_sink, rate_limiter, inbound,
                   idle_timeout>>

\* C16, amended: the limit is a bucket of 40 credits per client address,
\* shared by the sockets of the address, that refills by one credit every
\* 250 ms. Of a burst of messages of one address (no time passes) the 40th
\* is accepted and processed and the 41st is dropped; by time t no more than
\* 40 + t / 250 ms messages of the address have been accepted, and none is
\* dropped before 40 were accepted. A dropped message is dropped silently,
\* and a socket with no client address is never rate limited.
C16_Step ==
    /\ \A addr \in ClientAddrs :
          /\ inbound[addr] <= 40 + (now \div 250)
          /\ \A s \in SocketsOf(addr) :
                /\ (now = 0 /\ inbound[addr] < 40) =>
                       /\ ENABLED OnMessageNull(s)
                       /\ ~ENABLED OnMessageRateLimited(s)
                /\ (now = 0 /\ inbound[addr] = 40) =>
                       /\ ~ENABLED OnMessageNull(s)
                       /\ ENABLED OnMessageRateLimited(s)
                /\ (last'.op = "rate limited" /\ last'.s = s) =>
                       /\ inbound[addr] >= 40
                       /\ DroppedSilently
                /\ (last'.op = "null" /\ last'.s = s) =>
                       /\ inbound'[addr] = inbound[addr] + 1
                       /\ sent' = <<Send(s, Pong, TRUE)>>
    /\ \A s \in SocketsOf(None) :
          /\ ENABLED OnMessageNull(s)
          /\ ~ENABLED OnMessageRateLimited(s)
          /\ (last'.op = "null" /\ last'.s = s) =>
                 /\ sent' = <<Send(s, Pong, TRUE)>>
                 /\ UNCHANGED <<rate_limiter, inbound>>
    /\ last'.op = "rate limited" => sockets[last'.s].client_addr # None

C17_ClosedTagSet ==
    (/\ last.op = "message"
     /\ last.arg.t \notin {"p", "notified", "following_onlines", "startWatching",
                            "moveLat", "opening", "anaDests", "anaMove", "anaDrop",
                            "evalGet", "evalPut"})
        => sent = <<Send(last.s, Close("1002"), TRUE)>>

\* the piotr alphabet: a..z, A..Z, 0..9, '!', '?'
Alphabet ==
    <<
      "a", "b", "c", "d", "e", "f", "g", "h", "i", "j", "k", "l", "m", "n", "o", "p",
      "q", "r", "s", "t", "u", "v", "w", "x", "y", "z", "A", "B", "C", "D", "E", "F",
      "G", "H", "I", "J", "K", "L", "M", "N", "O", "P", "Q", "R", "S", "T", "U", "V",
      "W", "X", "Y", "Z", "0", "1", "2", "3", "4", "5", "6", "7", "8", "9", "!", "?"
    >>

\* the reply to the last callback, a request for destinations that succeeded
DestsReplied ==
    /\ last.op = "anaDests"
    /\ Len(sent) = 1
    /\ sent[1].msg[1] = "dests"

RECURSIVE Groups(_, _)
\* the squares of each origin square of us that has a legal move, followed by
\* the squares its moves go to
Groups(us, legals) ==
    IF us = <<>> THEN <<>>
    ELSE LET from_here == SelectSeq(legals, LAMBDA m : m.from = Head(us))
         IN  (IF from_here = <<>> THEN <<>>
              ELSE << <<Head(us)>> \o [i \in 1..Len(from_here) |-> from_here[i].to] >>)
             \o Groups(Tail(us), legals)

RECURSIVE Flatten(_)
Flatten(seqs) == IF seqs = <<>> THEN <<>> ELSE Head(seqs) \o Flatten(Tail(seqs))

\* C18: piotr maps square i to the i-th character of the alphabet a..z, A..Z,
\* 0..9, '!', '?' (a1 to a, b4 to z, c4 to A, d7 to Z, e7 to 0, f8 to 9, g8 to
\* '!', h8 to '?'), no two squares share a character and every character of
\* the alphabet is the image of a square; the characters of a reply with
\* destinations, the space aside, are those of the alphabet for the squares
\* of the legal moves.
C18_Piotr ==
    /\ \A sq \in 0..63 : piotr(sq) = Alphabet[sq + 1]
    /\ \A sq1, sq2 \in 0..63 : piotr(sq1) = piotr(sq2) => sq1 = sq2
    /\ {piotr(sq) : sq \in 0..63} = {Alphabet[i] : i \in 1..64}
    /\ Cardinality({Alphabet[i] : i \in 1..64}) = 64
    /\ piotr(0) = "a" /\ piotr(25) = "z" /\ piotr(26) = "A" /\ piotr(51) = "Z"
    /\ piotr(52) = "0" /\ piotr(61) = "9" /\ piotr(62) = "!" /\ piotr(63) = "?"
    /\ DestsReplied =>
          LET board == last.arg.d.fen.board
              squares == Flatten(Groups(Us(board), LegalMoves(board)))
          IN  SelectSeq(sent[1].msg[3], LAMBDA c : c # " ")
                 = [i \in 1..Len(squares) |-> Alphabet[squares[i] + 1]]

\* the destinations of a king on g7 were sent: they have the characters of
\* f8, g8 and h8
C18_Witness ==
    /\ DestsReplied
    /\ last.arg.d.fen.board = KingBoard(54)
    /\ \A c \in {"2", "9", "!", "?"} :
          \E i \in 1..Len(sent[1].msg[3]) : sent[1].msg[3][i] = c

RECURSIVE SplitOnSpaces(_, _)
\* str split on spaces, as str.split(' ') does: group is the part read since
\* the last space
SplitOnSpaces(str, group) ==
    IF str = <<>> THEN <<group>>
    ELSE IF Head(str) = " " THEN <<group>> \o SplitOnSpaces(Tail(str), <<>>)
    ELSE SplitOnSpaces(Tail(str), Append(group, Head(str)))

\* the square of a character of the piotr alphabet, 64 for any other
Unpiotr(c) ==
    IF \E sq \in 0..63 : Alphabet[sq + 1] = c
    THEN CHOOSE sq \in 0..63 : Alphabet[sq + 1] = c
    ELSE 64

\* the moves (origin, destination) that a group of characters stands for
Decoded(group) == {<<Unpiotr(group[1]), Unpiotr(group[i])>> : i \in 2..Len(group)}

\* C19: the dests string of a reply has one group per origin square with a
\* legal move, the character of the origin followed by those of its
\* destinations; the groups are separated by single spaces, the string neither
\* starts nor ends with a space, and splitting on spaces and decoding gives
\* exactly the legal moves; the start position gives 10 groups.
C19_DestsFormat ==
    DestsReplied =>
        LET board == last.arg.d.fen.board
            dests == sent[1].msg[3]
            groups == SplitOnSpaces(dests, <<>>)
            legals == LegalMoves(board)
        IN  /\ dests # <<>> => Head(dests) # " " /\ dests[Len(dests)] # " "
            /\ \A i \in 1..Len(groups) : Len(groups[i]) >= 2
            /\ Len(groups) = Len(Groups(Us(board), legals))
            /\ UNION {Decoded(groups[i]) : i \in 1..Len(groups)}
                  = {<<legals[i].from, legals[i].to>> : i \in 1..Len(legals)}
            /\ \A i \in 1..Len(groups) :
                  groups[i] = [k \in 1..Len(Groups(Us(board), legals)[i]) |->
                                  Alphabet[Groups(Us(board), legals)[i][k] + 1]]
            /\ board = StartBoard => Len(groups) = 10

\* C20: a request whose variant is antichess, atomic, horde or racingKings is
\* given no opening: the request for the opening gets no reply and the reply
\* with the destinations carries no opening.
C20_OpeningSensibleOnly ==
    /\ (last.op = "opening"
          /\ last.arg.variant \in {"antichess", "atomic", "horde", "racingKings"})
          => sent = <<>>
    /\ (DestsReplied
          /\ last.arg.d.variant \in {"antichess", "atomic", "horde", "racingKings"})
          => sent[1].msg[4] = <<>>

\* the kinds of record of the egress stream other than disconnect/all
EgressKinds ==
    {"connect", "disconnect", "watch", "unwatch", "notified", "friends", "lag",
     "connections"}

\* C21: disconnect/all is handed to the egress channel exactly once and is the
\* first record of the stream: every connect, disconnect, watch, unwatch,
\* notified, friends, lag and connections record comes after it.
C21_DisconnectAllFirst ==
    /\ Len(redis_sink) >= 1
    /\ redis_sink[1] = <<"disconnect", "all">>
    /\ \A i \in 2..Len(redis_sink) :
          /\ redis_sink[i][1] \in EgressKinds
          /\ redis_sink[i] # <<"disconnect", "all">>

\* the stream holds a connect, a watch, a lag and a connections record, and a
\* socket has closed
C21_Witness ==
    /\ \A kind \in {"connect", "watch", "lag", "connections"} :
          \E i \in 2..Len(redis_sink) : redis_sink[i][1] = kind
    /\ last.op = "on_close"

\* the records that a step hands to the egress channel
NewRecords == SubSeq(redis_sink', Len(redis_sink) + 1, Len(redis_sink'))

\* the ping of the step carries a lag that is not negative
LagGiven == last'.arg.l # <<>> /\ last'.arg.l[1] >= 0

\* C22: a lag record is published only by a ping with a non-negative lag l on
\* a socket that is Authenticated(U) at that moment, and it is lag/U/l; a ping
\* on a Requested or Anonymous socket publishes nothing and leaves nothing
\* behind to replay (no later step publishes a lag); every parsed ping on a
\* socket that has an authentication state is answered with the pong "0".
C22_Step ==
    /\ (\E i \in 1..Len(NewRecords) : NewRecords[i][1] = "lag") =>
          /\ last'.op = "p"
          /\ last'.s \in DOMAIN by_id
          /\ by_id[last'.s].auth.kind = "Authenticated"
          /\ LagGiven
    /\ (last'.op = "p" /\ last'.s \in DOMAIN by_id) =>
          /\ sent' = <<Send(last'.s, Pong, TRUE)>>
          /\ by_id' = by_id
          /\ NewRecords = IF by_id[last'.s].auth.kind = "Authenticated" /\ LagGiven
                          THEN << <<"lag", by_id[last'.s].auth.uid, last'.arg.l[1]>> >>
                          ELSE <<>>

TellUsersReach(users, s) ==
    Cardinality({p \in (1..Len(users)) \X (1..MaxSockets) :
                    /\ users[p[1]] \in DOMAIN by_user
                    /\ p[2] <= Len(by_user[users[p[1]]])
                    /\ by_user[users[p[1]]][p[2]] = s})

\* C23: a tell-user event for u1..un makes a send of the payload to every
\* socket of by_user[ui] for every i, whether or not another send of the event
\* failed, and makes no send to a socket that is Anonymous, Requested, closed
\* or authenticated as a user that is not listed.
C23_TellUsers ==
    last.op = "tell-user" =>
        /\ \A i \in 1..Len(sent) : sent[i].msg = last.arg.payload
        /\ \A s \in 1..MaxSockets :
              /\ Cardinality({i \in 1..Len(sent) : sent[i].to = s})
                    = TellUsersReach(last.arg.users, s)
              /\ (\E i \in 1..Len(sent) : sent[i].to = s) =>
                    /\ s \in DOMAIN by_id
                    /\ by_id[s].auth.kind = "Authenticated"
                    /\ \E k \in 1..Len(last.arg.users) : last.arg.users[k] = by_id[s].auth.uid

\* a tell-user for alice and bob: the send to alice's socket failed and bob's
\* socket was sent the payload all the same
C23_Witness ==
    /\ last.op = "tell-user"
    /\ last.arg.users = <<"alice", "bob">>
    /\ Len(sent) = 2
    /\ ~sent[1].ok
    /\ sent[2].ok
    /\ by_id[sent[1].to].auth = Authenticated("alice")
    /\ by_id[sent[2].to].auth = Authenticated("bob")

\* a tell-user for bob while the other sockets are Anonymous and alice's
C23_WitnessOthers ==
    /\ last.op = "tell-user"
    /\ last.arg.users = <<"bob">>
    /\ sent = <<>>
    /\ \E s \in DOMAIN by_id : by_id[s].auth.kind = "Anonymous"
    /\ \E s \in DOMAIN by_id : by_id[s].auth = Authenticated("alice")

\* a moveLat message was handled in the step
MoveLatStep(d) == last'.op = "moveLat" /\ last'.arg = d

\* the answer to a subscription: one send of the mlat value of the moment
MlatSnapshot ==
    /\ Len(sent') = 1
    /\ sent'[1].to = last'.s
    /\ sent'[1].msg = <<"mlat", mlat>>

\* C24, as stated: every moveLat with d = true leaves the socket in
\* watching_mlat and sends it the mlat snapshot, also when it was subscribed
\* already; a moveLat with d = false removes it and sends nothing.
C24_Original ==
    [][/\ MoveLatStep(TRUE) => (last'.s \in watching_mlat' /\ MlatSnapshot)
       /\ MoveLatStep(FALSE) => (last'.s \notin watching_mlat' /\ sent' = <<>>)]_vars

\* C24, amended: every moveLat with d = true leaves the socket in
\* watching_mlat, and sends it the mlat snapshot exactly when it was not
\* subscribed before (a repeated d = true sends nothing); a moveLat with
\* d = false removes it and sends nothing; no other socket's subscription
\* changes.
C24_MoveLat ==
    [][/\ MoveLatStep(TRUE) =>
             /\ last'.s \in watching_mlat'
             /\ IF last'.s \in watching_mlat THEN sent' = <<>> ELSE MlatSnapshot
       /\ MoveLatStep(FALSE) => (last'.s \notin watching_mlat' /\ sent' = <<>>)
       /\ last'.op = "moveLat" =>
             watching_mlat' \ {last'.s} = watching_mlat \ {last'.s}]_vars

\* a subscribed socket sent moveLat with d = true again, after an mlat record
\* had changed the value, and was sent nothing
C24_Witness ==
    /\ last.op = "moveLat"
    /\ last.arg = TRUE
    /\ last.s \in watching_mlat
    /\ sent = <<>>
    /\ mlat = "123"

\* C25: a well-formed anaMove or anaDrop request is answered with exactly one
\* envelope, node or stepFailure, and the handler returns: nothing panics.
C25_StepAnswered ==
    last.op \in {"anaMove", "anaDrop"} =>
        /\ ~panicked
        /\ Len(sent) = 1
        /\ sent[1].to = last.s
        /\ sent[1].msg[1] \in {"node", "stepFailure"}

\* socket s is registered and its authentication is Requested
IsRequested(s) == s \in DOMAIN by_id /\ by_id[s].auth.kind = "Requested"

\* a step of authentication: a lookup that found no user makes the socket
\* Anonymous; a socket that is not Requested does not become Requested unless
\* on_open registers it; an Authenticated socket keeps its user while registered
C29_Step ==
    /\ (last'.op = "session_lookup" /\ last'.arg = None /\ last'.s \in DOMAIN by_id) =>
          by_id'[last'.s].auth = Anonymous
    /\ \A s \in 1..MaxSockets :
          /\ (~IsRequested(s) /\ IsRequested(s)') =>
                /\ last'.op = "on_open"
                /\ last'.s = s
                /\ sockets[s].phase = "connecting"
          /\ (s \in DOMAIN by_id /\ by_id[s].auth.kind = "Authenticated"
                /\ s \in DOMAIN by_id') => by_id'[s].auth = by_id[s].auth

\* C29: with a lookup worker that is scheduled fairly, every socket that is
\* Requested eventually is not (it is Authenticated, Anonymous or closed); a
\* lookup without a user makes it Anonymous; a socket never returns to
\* Requested, and an Authenticated socket keeps its user until it closes.
C29_Resolves ==
    /\ [][C29_Step]_vars
    /\ \A s \in 1..MaxSockets : IsRequested(s) ~> ~IsRequested(s)

\* a lookup that found no user has made a Requested socket Anonymous while the
\* other socket is Authenticated
C29_Witness ==
    /\ last.op = "session_lookup"
    /\ last.arg = None
    /\ last.s \in DOMAIN by_id
    /\ by_id[last.s].auth = Anonymous
    /\ \E s \in DOMAIN by_id : by_id[s].auth.kind = "Authenticated"

\* the last startWatching and the last move have both completed, for the same
\* game, and the socket is registered as a watcher of it
WatchAndMoveDone ==
    /\ pc.ws.at = "returned"
    /\ pc.ws.game # None
    /\ pc.ingress.at = "returned"
    /\ pc.ingress.state # <<>>
    /\ pc.ingress.state[1].game = pc.ws.game
    /\ pc.ws.game \in DOMAIN by_game
    /\ Position(by_game[pc.ws.game], pc.ws.s) # 0

\* C27: when a startWatching of g by a socket and the dispatch of the moves of
\* g have both completed and the socket is a registered watcher, the socket
\* has been sent the most recent move of g: either the cached state that
\* startWatching sent it is that move, or the fan-out of that move went to it.
C27_WatcherHasNewest ==
    WatchAndMoveDone =>
        \/ pc.ws.state = pc.ingress.state
        \/ pc.ws.s \in pc.ingress.to

\* the sockets whose sender is in a list of by_user
InByUser == UNION {{by_user[u][i] : i \in 1..Len(by_user[u])} : u \in DOMAIN by_user}

\* how many records <<kind, uid>> were published
Published(kind, uid) == Count(redis_sink, <<kind, uid>>)

\* a step of the lookup worker and of the factory: the result of a lookup
\* touches the socket of the request only, and nothing at all when that socket
\* is not in by_id; the factory gives a new, larger id, and only on_open of a
\* socket that was never opened puts an id into by_id
C26_Step ==
    /\ last'.op = "session_lookup" =>
          /\ last'.s = Head(sid_sink)
          /\ DOMAIN by_id' = DOMAIN by_id
          /\ \A x \in DOMAIN by_id : x # last'.s => by_id'[x] = by_id[x]
          /\ InByUser' \subseteq InByUser \cup ({last'.s} \cap DOMAIN by_id)
          /\ last'.s \notin DOMAIN by_id =>
                (by_id' = by_id /\ by_user' = by_user /\ redis_sink' = redis_sink)
    /\ last'.op = "factory" =>
          /\ socket_id' = socket_id + 1
          /\ socket_id' \notin DOMAIN sockets
    /\ \A x \in DOMAIN by_id' \ DOMAIN by_id :
          /\ last'.op = "on_open"
          /\ last'.s = x
          /\ sockets[x].phase = "connecting"

\* a closed socket whose lookup is not pending is in no list of by_user, and
\* for every user the connect records are one more than the disconnect records
\* while a sender of the user is in by_user, and as many otherwise
C26_Settled ==
    /\ \A s \in DOMAIN sockets :
          (/\ sockets[s].phase = "closed"
           /\ \A i \in 1..Len(sid_sink) : sid_sink[i] # s) => s \notin InByUser
    /\ \A u \in Users :
          /\ Published("connect", u) - Published("disconnect", u)
                = IF u \in DOMAIN by_user THEN 1 ELSE 0
          /\ u \in DOMAIN by_user => by_user[u] # <<>>

\* C26: under every interleaving of the lookup worker with on_close, a lookup
\* result is applied only to the socket whose id requested it and only while
\* it is in by_id, ids are never reused, a result that arrives after the close
\* changes nothing, and once a socket is closed and its lookup consumed its
\* sender is in no by_user list and the connect and disconnect records of
\* every user follow the first-socket and last-socket rule.
C26_LookupVersusClose == [][C26_Step]_vars /\ []C26_Settled

\* the result of the lookup of a socket arrived between the removal of the
\* socket from by_id and set_user(None) of its on_close, while the other socket
\* of alice is connected
C26_Witness ==
    /\ last.op = "session_lookup"
    /\ last.arg = "alice"
    /\ pc.ws.at = "on_close:set_user"
    /\ pc.ws.s = last.s
    /\ "alice" \in DOMAIN by_user

\* thread t is in read() or write()
Acquiring(t) == threads[t].ops # <<>> /\ Head(threads[t].ops).op = "acquire"

\* thread t waits for thread u: t is acquiring a lock of which u holds a guard
\* that excludes t, or t is acquiring a lock for reading that u is acquiring
\* for writing (a reader queues behind a writer that waits)
WaitsFor(t, u) ==
    /\ Acquiring(t)
    /\ LET a == Head(threads[t].ops)
       IN  \/ \E h \in threads[u].held :
                 h.lock = a.lock /\ (a.mode = "write" \/ h.mode = "write")
           \/ /\ u # t
              /\ a.mode = "read"
              /\ Acquiring(u)
              /\ Head(threads[u].ops).lock = a.lock
              /\ Head(threads[u].ops).mode = "write"

\* the orders in which a thread may take a second lock while it holds a first
LockOrder ==
    {<<"by_id", "by_user">>} \cup {<<"by_game", FlagLock(f)>> : f \in Flag}

\* C28: no set of threads waits in a cycle for locks (so no thread is blocked
\* for ever by the others), some thread that is in a callback can always take
\* its next step, and a thread that takes a lock while it holds another does so
\* in one of the orders by_id then by_user, by_game then the lock of a flag,
\* which have no cycle.
C28_DeadlockFree ==
    /\ \A t \in Threads : ~WaitsFor(t, t)
    /\ \A t, u \in Threads : ~(WaitsFor(t, u) /\ WaitsFor(u, t))
    /\ \A t, u, v \in Threads : ~(WaitsFor(t, u) /\ WaitsFor(u, v) /\ WaitsFor(v, t))
    /\ (\E t \in Threads : threads[t].ops # <<>>) =>
          \E t \in Threads :
             /\ threads[t].ops # <<>>
             /\ Acquiring(t) => \A u \in Threads : ~WaitsFor(t, u)
    /\ \A t \in Threads : Acquiring(t) =>
          \A h \in threads[t].held : <<h.lock, Head(threads[t].ops).lock>> \in LockOrder
    /\ \A p \in LockOrder : <<p[2], p[1]>> \notin LockOrder /\ p[1] # p[2]

\* a chain of waits that is no cycle: the event loop thread waits for by_id,
\* which the lookup thread holds while it waits for by_user, which the ingress
\* thread reads
C28_Witness ==
    /\ threads["lookup"].held = {[lock |-> "by_id", mode |-> "write"]}
    /\ WaitsFor("lookup", "ingress")
    /\ WaitsFor("ws", "lookup")
    /\ threads["ingress"].held = {[lock |-> "by_user", mode |-> "read"]}

====
